---- MODULE Spec2Model ----
(***************************************************************************)
(* A model of the retrieval core of the thesis search engine:              *)
(* src/bm25_with_dictionary_improved.py (ImprovedDictionaryBM25Ranker),    *)
(* fed by the corpus and index builders of src/scripts.                    *)
(*                                                                         *)
(* Strings are TLA+ strings; s[i:j] is SubSeq, + is \o.  Floats are fixed  *)
(* point: BM25 scores, idf and logarithms in millionths ("micro"), the     *)
(* boost multiplier and the tf saturation factor in thousandths ("milli"). *)
(* Ratios compared with a decimal literal (coverage >= 0.7, df > N*0.3,    *)
(* int(n*0.65)) are compared exactly as integers; that agrees with the     *)
(* floating-point result for every count below 180.                        *)
(***************************************************************************)
EXTENDS Integers, Sequences, FiniteSets, TLC

(***************************************************************************)
(* Strings                                                                 *)
(***************************************************************************)
Min(a, b) == IF a <= b THEN a ELSE b

Max(a, b) == IF a >= b THEN a ELSE b

\* a list or dict as the interpreter holds it: every element computed, once
Stored(f) == f @@ <<>>

CharAt(s, i) == SubSeq(s, i, i)

\* s[:n]
Take(s, n) == SubSeq(s, 1, Min(n, Len(s)))

\* the upper-case letters, each with the letter str.lower() gives for it
UpperCase ==
    [A |-> "a", B |-> "b", C |-> "c", D |-> "d", E |-> "e", F |-> "f", G |-> "g",
     H |-> "h", I |-> "i", J |-> "j", K |-> "k", L |-> "l", M |-> "m", N |-> "n",
     O |-> "o", P |-> "p", Q |-> "q", R |-> "r", S |-> "s", T |-> "t", U |-> "u",
     V |-> "v", W |-> "w", X |-> "x", Y |-> "y", Z |-> "z"]

Letters == "abcdefghijklmnopqrstuvwxyz"

\* str.lower() on one character
LowerChar(c) == IF c \in DOMAIN UpperCase THEN UpperCase[c] ELSE c

\* str.lower(), by halves
RECURSIVE Lower(_)
Lower(s) ==
    IF Len(s) = 0 THEN ""
    ELSE IF Len(s) = 1 THEN LowerChar(s)
    ELSE Lower(SubSeq(s, 1, Len(s) \div 2)) \o Lower(SubSeq(s, Len(s) \div 2 + 1, Len(s)))

IsSpace(c) == c \in {" ", "\t", "\n"}

\* the k-th smallest element of a set of integers, k = 1..Cardinality(S)
Nth(S, k) == CHOOSE x \in S : Cardinality({y \in S : y < x}) = k - 1

SortInts(S) == Stored([k \in 1..Cardinality(S) |-> Nth(S, k)])

\* str.split(): the maximal runs of non-whitespace characters, in order
Split(s) ==
    LET starts == {i \in 1..Len(s) : /\ ~IsSpace(CharAt(s, i))
                                      /\ (i = 1 \/ IsSpace(CharAt(s, i - 1)))}
        ends == {i \in 1..Len(s) : /\ ~IsSpace(CharAt(s, i))
                                    /\ (i = Len(s) \/ IsSpace(CharAt(s, i + 1)))}
        from == SortInts(starts)
        to == SortInts(ends)
    IN  Stored([k \in 1..Len(from) |-> SubSeq(s, from[k], to[k])])

\* sep.join(parts)
RECURSIVE Join(_, _)
Join(parts, sep) ==
    IF parts = <<>> THEN ""
    ELSE IF Len(parts) = 1 THEN parts[1]
    ELSE parts[1] \o sep \o Join(Tail(parts), sep)

\* t.startswith(w)
StartsWith(t, w) == Len(t) >= Len(w) /\ SubSeq(t, 1, Len(w)) = w

\* `term in text` on strings
Contains(text, term) ==
    \E i \in 1..(Len(text) - Len(term) + 1) : SubSeq(text, i, i + Len(term) - 1) = term

\* `x in list`
InSeq(x, seq) == \E i \in 1..Len(seq) : seq[i] = x

Range(seq) == {seq[i] : i \in 1..Len(seq)}

CharOrder == " -0123456789_abcdefghijklmnopqrstuvwxyz"

CharRank(c) ==
    IF \E i \in 1..Len(CharOrder) : CharAt(CharOrder, i) = c
    THEN CHOOSE i \in 1..Len(CharOrder) : CharAt(CharOrder, i) = c
    ELSE 0

RECURSIVE LexLess(_, _)
LexLess(a, b) ==
    IF b = "" THEN FALSE
    ELSE IF a = "" THEN TRUE
    ELSE IF CharAt(a, 1) = CharAt(b, 1) THEN LexLess(Tail(a), Tail(b))
    ELSE CharRank(CharAt(a, 1)) < CharRank(CharAt(b, 1))

\* the strings of S in ascending order
SortStrings(S) ==
    Stored([k \in 1..Cardinality(S) |->
               CHOOSE x \in S : Cardinality({y \in S : LexLess(y, x)}) = k - 1])

Reverse(seq) == Stored([i \in 1..Len(seq) |-> seq[Len(seq) + 1 - i]])

Rotate(seq, k) ==
    IF seq = <<>> THEN <<>>
    ELSE Stored([i \in 1..Len(seq) |-> seq[((i - 1 + k) % Len(seq)) + 1]])

\* sum(seq), by halves
RECURSIVE SumSeq(_)
SumSeq(seq) ==
    IF Len(seq) = 0 THEN 0
    ELSE IF Len(seq) = 1 THEN seq[1]
    ELSE SumSeq(SubSeq(seq, 1, Len(seq) \div 2)) + SumSeq(SubSeq(seq, Len(seq) \div 2 + 1, Len(seq)))

\* a * b / 1000 on fixed-point operands, rounded down, without leaving 32 bits
MulMilli(a, b) == (a \div 1000) * b + ((a % 1000) * b) \div 1000

(***************************************************************************)
(* Module constants and static tables of bm25_with_dictionary_improved.py  *)
(***************************************************************************)
\* K1 = 1.6, in milli
K1 == 1600

\* B = 0.75, in milli
B == 750

\* TITLE_BOOST = 5.5, in milli
TITLE_BOOST == 5500

\* KEYWORD_BOOST = 4.5, in milli
KEYWORD_BOOST == 4500

MAX_RESULTS_SPECIFIC == 25

MAX_RESULTS_MODERATE == 40

MAX_RESULTS_GENERIC == 55

\* MIN_SCORE_THRESHOLD = 8.0, in micro
MIN_SCORE_THRESHOLD == 8000000

\* MIN_TERM_COVERAGE = 0.65, in hundredths
MIN_TERM_COVERAGE == 65

\* the fallback fraction 0.35 of search(), in hundredths
RELAXED_TERM_COVERAGE == 35

\* IDEAL_TERM_COVERAGE = 0.85, in hundredths
IDEAL_TERM_COVERAGE == 85

GENERIC_TERMS ==
    {"dengan", "untuk", "pada", "yang", "dari", "dan", "atau", "ke", "oleh"}

DOMAIN_PATTERNS == <<
    [name |-> "security", boost |-> 1900,
     terms |-> <<"keamanan", "enkripsi", "pengamanan", "kriptografi", "security",
        "steganografi", "watermark", "cipher", "citra", "digital">>],
    [name |-> "ml_ai", boost |-> 1800,
     terms |-> <<"machine", "learning", "neural", "deep", "klasifikasi", "prediksi",
        "algoritma", "cnn", "lstm", "svm", "naive", "bayes">>],
    [name |-> "ui_ux", boost |-> 1700,
     terms |-> <<"user", "interface", "antarmuka", "desain", "ui", "ux", "interaksi",
        "usability", "centered", "experience">>],
    [name |-> "nlp", boost |-> 1800,
     terms |-> <<"sentimen", "teks", "peringkasan", "topik", "chatbot", "nlp", "text",
        "mining", "sentiment", "analisis">>],
    [name |-> "recommender", boost |-> 1800,
     terms |-> <<"rekomendasi", "recommendation", "collaborative", "filtering">>],
    [name |-> "medical", boost |-> 1700,
     terms |-> <<"penyakit", "medis", "diagnosis", "kesehatan", "deteksi", "jantung",
        "diabetes", "kanker", "stroke", "hospital">>],
    [name |-> "iot", boost |-> 1600,
     terms |-> <<"iot", "sensor", "arduino", "monitoring", "embedded">>],
    [name |-> "business", boost |-> 1700,
     terms |-> <<"business", "intelligence", "bi", "dashboard", "analitik">>],
    [name |-> "mobile", boost |-> 1600,
     terms |-> <<"mobile", "android", "smartphone", "aplikasi">>] >>

\* _build_common_typos(): misspelling -> canonical term
BuildCommonTypos ==
    "detksi" :> "deteksi" @@ "deteksi" :> "deteksi" @@ "penykti" :> "penyakit" @@
    "penykit" :> "penyakit" @@ "penyakit" :> "penyakit" @@ "jntung" :> "jantung" @@
    "jantng" :> "jantung" @@ "jantung" :> "jantung" @@ "diabtes" :> "diabetes" @@
    "diabetis" :> "diabetes" @@ "kankr" :> "kanker" @@ "kanker" :> "kanker" @@
    "strke" :> "stroke" @@ "stroke" :> "stroke" @@ "dagnosis" :> "diagnosis" @@
    "diagnosa" :> "diagnosis" @@ "diagnosis" :> "diagnosis" @@ "kesehtan" :> "kesehatan" @@
    "kesehatn" :> "kesehatan" @@ "machin" :> "machine" @@ "lerning" :> "learning" @@
    "learnnig" :> "learning" @@ "klasifkasi" :> "klasifikasi" @@
    "klasifikasi" :> "klasifikasi" @@ "algortima" :> "algoritma" @@
    "algoritma" :> "algoritma" @@ "predksi" :> "prediksi" @@ "prediksi" :> "prediksi" @@
    "sistem" :> "sistem" @@ "sistim" :> "sistem" @@ "aplikas" :> "aplikasi" @@
    "aplikasi" :> "aplikasi" @@ "rekomndasi" :> "rekomendasi" @@
    "rekomendasi" :> "rekomendasi" @@ "pencaruan" :> "pencarian" @@
    "pencarian" :> "pencarian" @@ "pencrarian" :> "pencarian" @@
    "interfce" :> "interface" @@ "interface" :> "interface" @@ "antarmka" :> "antarmuka" @@
    "antarmuka" :> "antarmuka" @@ "pengguna" :> "pengguna" @@ "pemakai" :> "pengguna" @@
    "ontolgi" :> "ontologi" @@ "ontologi" :> "ontologi" @@ "jaringan" :> "jaringan" @@
    "jaringn" :> "jaringan"

\* _build_synonyms(): term -> set of related terms
BuildSynonyms ==
    "sistem" :> {"aplikasi", "program"} @@
    "aplikasi" :> {"sistem", "program"} @@
    "analisis" :> {"analisa"} @@
    "analisa" :> {"analisis"} @@
    "sentimen" :> {"sentiment"} @@
    "pencarian" :> {"search"} @@
    "rekomendasi" :> {"recommendation"} @@
    "klasifikasi" :> {"classification", "pengelompokan"} @@
    "deteksi" :> {"detection", "identifikasi", "pengenalan"} @@
    "detection" :> {"deteksi", "identifikasi"} @@
    "pengguna" :> {"user"} @@
    "user" :> {"pengguna"} @@
    "antarmuka" :> {"interface"} @@
    "interface" :> {"antarmuka"} @@
    "mobile" :> {"android"} @@
    "android" :> {"mobile"} @@
    "desain" :> {"design"} @@
    "design" :> {"desain"} @@
    "keamanan" :> {"security"} @@
    "security" :> {"keamanan"} @@
    "enkripsi" :> {"encryption"} @@
    "penyakit" :> {"disease"} @@
    "disease" :> {"penyakit"} @@
    "jantung" :> {"heart", "cardiac"} @@
    "heart" :> {"jantung"} @@
    "diagnosis" :> {"diagnosa"} @@
    "diagnosa" :> {"diagnosis"} @@
    "kesehatan" :> {"health"} @@
    "health" :> {"kesehatan"}

\* round(10^6 * math.log(n)) for n = 1..400
LnMicroTable == <<
    0, 693147, 1098612, 1386294, 1609438, 1791759, 1945910, 2079442, 2197225,
    2302585, 2397895, 2484907, 2564949, 2639057, 2708050, 2772589, 2833213, 2890372,
    2944439, 2995732, 3044522, 3091042, 3135494, 3178054, 3218876, 3258097, 3295837,
    3332205, 3367296, 3401197, 3433987, 3465736, 3496508, 3526361, 3555348, 3583519,
    3610918, 3637586, 3663562, 3688879, 3713572, 3737670, 3761200, 3784190, 3806662,
    3828641, 3850148, 3871201, 3891820, 3912023, 3931826, 3951244, 3970292, 3988984,
    4007333, 4025352, 4043051, 4060443, 4077537, 4094345, 4110874, 4127134, 4143135,
    4158883, 4174387, 4189655, 4204693, 4219508, 4234107, 4248495, 4262680, 4276666,
    4290459, 4304065, 4317488, 4330733, 4343805, 4356709, 4369448, 4382027, 4394449,
    4406719, 4418841, 4430817, 4442651, 4454347, 4465908, 4477337, 4488636, 4499810,
    4510860, 4521789, 4532599, 4543295, 4553877, 4564348, 4574711, 4584967, 4595120,
    4605170, 4615121, 4624973, 4634729, 4644391, 4653960, 4663439, 4672829, 4682131,
    4691348, 4700480, 4709530, 4718499, 4727388, 4736198, 4744932, 4753590, 4762174,
    4770685, 4779123, 4787492, 4795791, 4804021, 4812184, 4820282, 4828314, 4836282,
    4844187, 4852030, 4859812, 4867534, 4875197, 4882802, 4890349, 4897840, 4905275,
    4912655, 4919981, 4927254, 4934474, 4941642, 4948760, 4955827, 4962845, 4969813,
    4976734, 4983607, 4990433, 4997212, 5003946, 5010635, 5017280, 5023881, 5030438,
    5036953, 5043425, 5049856, 5056246, 5062595, 5068904, 5075174, 5081404, 5087596,
    5093750, 5099866, 5105945, 5111988, 5117994, 5123964, 5129899, 5135798, 5141664,
    5147494, 5153292, 5159055, 5164786, 5170484, 5176150, 5181784, 5187386, 5192957,
    5198497, 5204007, 5209486, 5214936, 5220356, 5225747, 5231109, 5236442, 5241747,
    5247024, 5252273, 5257495, 5262690, 5267858, 5273000, 5278115, 5283204, 5288267,
    5293305, 5298317, 5303305, 5308268, 5313206, 5318120, 5323010, 5327876, 5332719,
    5337538, 5342334, 5347108, 5351858, 5356586, 5361292, 5365976, 5370638, 5375278,
    5379897, 5384495, 5389072, 5393628, 5398163, 5402677, 5407172, 5411646, 5416100,
    5420535, 5424950, 5429346, 5433722, 5438079, 5442418, 5446737, 5451038, 5455321,
    5459586, 5463832, 5468060, 5472271, 5476464, 5480639, 5484797, 5488938, 5493061,
    5497168, 5501258, 5505332, 5509388, 5513429, 5517453, 5521461, 5525453, 5529429,
    5533389, 5537334, 5541264, 5545177, 5549076, 5552960, 5556828, 5560682, 5564520,
    5568345, 5572154, 5575949, 5579730, 5583496, 5587249, 5590987, 5594711, 5598422,
    5602119, 5605802, 5609472, 5613128, 5616771, 5620401, 5624018, 5627621, 5631212,
    5634790, 5638355, 5641907, 5645447, 5648974, 5652489, 5655992, 5659482, 5662960,
    5666427, 5669881, 5673323, 5676754, 5680173, 5683580, 5686975, 5690359, 5693732,
    5697093, 5700444, 5703782, 5707110, 5710427, 5713733, 5717028, 5720312, 5723585,
    5726848, 5730100, 5733341, 5736572, 5739793, 5743003, 5746203, 5749393, 5752573,
    5755742, 5758902, 5762051, 5765191, 5768321, 5771441, 5774552, 5777652, 5780744,
    5783825, 5786897, 5789960, 5793014, 5796058, 5799093, 5802118, 5805135, 5808142,
    5811141, 5814131, 5817111, 5820083, 5823046, 5826000, 5828946, 5831882, 5834811,
    5837730, 5840642, 5843544, 5846439, 5849325, 5852202, 5855072, 5857933, 5860786,
    5863631, 5866468, 5869297, 5872118, 5874931, 5877736, 5880533, 5883322, 5886104,
    5888878, 5891644, 5894403, 5897154, 5899897, 5902633, 5905362, 5908083, 5910797,
    5913503, 5916202, 5918894, 5921578, 5924256, 5926926, 5929589, 5932245, 5934894,
    5937536, 5940171, 5942799, 5945421, 5948035, 5950643, 5953243, 5955837, 5958425,
    5961005, 5963579, 5966147, 5968708, 5971262, 5973810, 5976351, 5978886, 5981414,
    5983936, 5986452, 5988961, 5991465 >>

\* math.log(a / b), in micro, for integers 1 <= a, b <= Len(LnMicroTable)
LnRatioMicro(a, b) == LnMicroTable[a] - LnMicroTable[b]

(***************************************************************************)
(* The corpus builder, scripts/build_corpus.py.  A row is the record of    *)
(* the already preprocessed fields of one thesis (extract_fields).         *)
(***************************************************************************)
\* FIELD_WEIGHTS, in tenths, in dictionary order
FIELD_WEIGHTS == <<
    [field |-> "Title", weight |-> 50], [field |-> "Keywords", weight |-> 40],
    [field |-> "Abstract", weight |-> 30], [field |-> "BAB 1", weight |-> 20],
    [field |-> "BAB 2", weight |-> 15], [field |-> "BAB 3", weight |-> 10],
    [field |-> "BAB 4", weight |-> 10], [field |-> "BAB 5", weight |-> 10],
    [field |-> "Authors", weight |-> 5], [field |-> "Advisors", weight |-> 5] >>

\* fields.get(name, ''): a row need not hold every field
Field(fields, name) == IF name \in DOMAIN fields THEN fields[name] ELSE ""

\* text repeated n times, as n parts
Repeat(text, n) == Stored([i \in 1..n |-> text])

\* build_weighted_text: each non-empty weighted field, int(weight) times
RECURSIVE WeightedParts(_, _)
WeightedParts(fields, i) ==
    IF i > Len(FIELD_WEIGHTS) THEN <<>>
    ELSE LET text == Field(fields, FIELD_WEIGHTS[i].field)
             reps == FIELD_WEIGHTS[i].weight \div 10
         IN  (IF text = "" THEN <<>> ELSE Repeat(text, reps))
             \o WeightedParts(fields, i + 1)

build_weighted_text(fields) == Join(WeightedParts(fields, 1), " ")

\* total_words = sum(len(text.split()) for text in fields.values())
TotalWords(fields) ==
    SumSeq(Stored([i \in 1..Len(FIELD_WEIGHTS) |->
                      Len(Split(Field(fields, FIELD_WEIGHTS[i].field)))]))

\* main(): rows with fewer than 10 words, or fewer than 5 weighted tokens, are skipped
KeepsRow(fields) ==
    /\ TotalWords(fields) >= 10
    /\ Len(Split(build_weighted_text(fields))) >= 5

\* main(): the corpus entry of row idx
CorpusDoc(idx, fields) ==
    [doc_id |-> idx,
     title |-> Field(fields, "Title"),
     keywords |-> Field(fields, "Keywords"),
     abstract |-> Field(fields, "Abstract"),
     authors |-> Field(fields, "Authors"),
     weighted_text |-> build_weighted_text(fields)]

\* main(): the corpus holds the kept rows, in the order of the table
BuildCorpus(rows) ==
    LET kept == SortInts({idx \in 1..Len(rows) : KeepsRow(rows[idx])})
    IN  Stored([k \in 1..Len(kept) |-> CorpusDoc(kept[k], rows[kept[k]])])

(***************************************************************************)
(* The index builder, scripts/build_index.py: build_positional_index.      *)
(* The result is the content of index.json.                                *)
(***************************************************************************)
CountIn(tok, toks) == Cardinality({i \in 1..Len(toks) : toks[i] = tok})

build_positional_index(corpus) ==
    LET ids == {corpus[i].doc_id : i \in 1..Len(corpus)}
        doc(d) == corpus[CHOOSE i \in 1..Len(corpus) : corpus[i].doc_id = d]
        tokens == Stored([d \in ids |-> Split(doc(d).weighted_text)])
        toksets == Stored([d \in ids |-> Range(tokens[d])])
        ttoks == Stored([d \in ids |-> Range(Split(doc(d).title))])
        ktoks == Stored([d \in ids |-> Range(Split(doc(d).keywords))])
        terms == UNION {toksets[d] : d \in ids}
        doc_len_ == Stored([d \in ids |-> Len(tokens[d])])
    IN  [index |-> Stored([t \in terms |->
                      Stored([d \in {e \in ids : t \in toksets[e]} |-> CountIn(t, tokens[d])])]),
         title_index |-> Stored([t \in UNION {ttoks[d] : d \in ids} |->
                                    {d \in ids : t \in ttoks[d]}]),
         keyword_index |-> Stored([t \in UNION {ktoks[d] : d \in ids} |->
                                      {d \in ids : t \in ktoks[d]}]),
         doc_len |-> doc_len_,
         doc_metadata |-> Stored([d \in ids |->
                      [title |-> Take(doc(d).title, 200),
                       keywords |-> Take(doc(d).keywords, 200),
                       abstract |-> Take(doc(d).abstract, 500),
                       authors |-> Take(doc(d).authors, 100)]]),
         num_docs |-> Cardinality(ids),
         \* sum(doc_len.values()) / len(doc_len) if doc_len else 0, as a fraction
         avg_doc_len |-> IF ids = {} THEN [num |-> 0, den |-> 1]
                         ELSE [num |-> SumSeq(Stored([i \in 1..Len(corpus) |->
                                                          doc_len_[corpus[i].doc_id]])),
                               den |-> Cardinality(ids)]]

(***************************************************************************)
(* The dictionary files blocks.json and frontcoded.json.  Their builder is *)
(* not among the sources; the layout is the one the ranker reads: a block  *)
(* per key (first 3 characters, or the whole term when shorter), holding   *)
(* its terms in order, and the block front-coded as "key*suf1|suf2|...".   *)
(***************************************************************************)
\* find_block: term[:3] if len(term) >= 3 else term
BlockKey(term) == IF Len(term) >= 3 THEN SubSeq(term, 1, 3) ELSE term

BuildBlocks(terms) ==
    Stored([k \in {BlockKey(t) : t \in terms} |-> SortStrings({t \in terms : BlockKey(t) = k})])

\* one block: the bare term when it is alone, else key*suffix|suffix|...
EncodeBlock(key, block) ==
    IF Len(block) = 1 THEN block[1]
    ELSE key \o "*" \o Join(Stored([i \in 1..Len(block) |->
                                      SubSeq(block[i], Len(key) + 1, Len(block[i]))]), "|")

BuildFrontcoded(blocks_) == Stored([k \in DOMAIN blocks_ |-> EncodeBlock(k, blocks_[k])])

\* s.split(sep): the parts between the separators, empty parts kept
SplitOn(s, sep) ==
    LET cuts == SortInts({0, Len(s) + 1} \cup {i \in 1..Len(s) : CharAt(s, i) = sep})
    IN  Stored([k \in 1..(Len(cuts) - 1) |-> SubSeq(s, cuts[k] + 1, cuts[k + 1] - 1)])

\* decode_frontcoded with the empty suffixes dropped, as suffixes.split('|') would be
\* if it kept no empty part
decode_frontcoded_nonempty_parts(frontcoded_str) ==
    IF ~Contains(frontcoded_str, "*") THEN <<frontcoded_str>>
    ELSE LET star == CHOOSE i \in 1..Len(frontcoded_str) :
                        /\ CharAt(frontcoded_str, i) = "*"
                        /\ \A j \in 1..(i - 1) : CharAt(frontcoded_str, j) # "*"
             prefix == SubSeq(frontcoded_str, 1, star - 1)
             suffixes == SubSeq(frontcoded_str, star + 1, Len(frontcoded_str))
         IN  IF suffixes = "" THEN <<prefix>>
             ELSE LET parts == SelectSeq(SplitOn(suffixes, "|"), LAMBDA s : s # "")
                  IN  Stored([i \in 1..Len(parts) |-> prefix \o parts[i]])

\* decode_frontcoded
decode_frontcoded(frontcoded_str) ==
    IF ~Contains(frontcoded_str, "*") THEN <<frontcoded_str>>
    ELSE LET star == CHOOSE i \in 1..Len(frontcoded_str) :
                        /\ CharAt(frontcoded_str, i) = "*"
                        /\ \A j \in 1..(i - 1) : CharAt(frontcoded_str, j) # "*"
             prefix == SubSeq(frontcoded_str, 1, star - 1)
             suffixes == SubSeq(frontcoded_str, star + 1, Len(frontcoded_str))
         IN  IF suffixes = "" THEN <<prefix>>
             ELSE LET parts == SplitOn(suffixes, "|")
                  IN  Stored([i \in 1..Len(parts) |-> prefix \o parts[i]])

\* the recurrence of edit_distance without the insertions term of the minimum
RECURSIVE EditRowNoInsertions(_, _, _, _)
EditRowNoInsertions(previous_row, c1, s2, current_row) ==
    IF Len(current_row) > Len(s2) THEN current_row
    ELSE LET j == Len(current_row)
             deletions == current_row[j] + 1
             substitutions == previous_row[j] + (IF c1 # CharAt(s2, j) THEN 1 ELSE 0)
         IN  EditRowNoInsertions(previous_row, c1, s2,
                                 Append(current_row, Min(deletions, substitutions)))

\* edit_distance: the row-by-row Levenshtein recurrence.  current_row, built left to
\* right for the character c1 of s1; the next index of s2 is j = len(current_row)
RECURSIVE EditRow(_, _, _, _)
EditRow(previous_row, c1, s2, current_row) ==
    IF Len(current_row) > Len(s2) THEN current_row
    ELSE LET j == Len(current_row)
             insertions == previous_row[j + 1] + 1
             deletions == current_row[j] + 1
             substitutions == previous_row[j] + (IF c1 # CharAt(s2, j) THEN 1 ELSE 0)
         IN  EditRow(previous_row, c1, s2,
                     Append(current_row, Min(insertions, Min(deletions, substitutions))))

\* the rows for s1[i:], i counted from 1: current_row starts as [i + 1] in the code's count
RECURSIVE EditRows(_, _, _, _)
EditRows(s1, s2, i, previous_row) ==
    IF i > Len(s1) THEN previous_row
    ELSE EditRows(s1, s2, i + 1, EditRow(previous_row, CharAt(s1, i), s2, <<i>>))

\* edit_distance: the shorter string is made s2 (the code swaps by calling itself)
edit_distance(s1, s2) ==
    LET long == IF Len(s1) < Len(s2) THEN s2 ELSE s1
        short == IF Len(s1) < Len(s2) THEN s1 ELSE s2
    IN  IF Len(short) = 0 THEN Len(long)
        ELSE EditRows(long, short, 1, Stored([j \in 1..(Len(short) + 1) |-> j - 1]))[Len(short) + 1]
(***************************************************************************)
(* State                                                                   *)
(***************************************************************************)
VARIABLES
    rows,           \* the preprocessed rows of the thesis table the data files were built from
    hashSeed,       \* the process's string hash seed: fixes the iteration order of every set
    damage,         \* what is wrong with the files of the data directory, "none" when nothing is
    phase,          \* "unloaded" | "failed" | "ready" | "returned" | "probed"
    blocks, frontcoded, vocabulary,
    index, doc_len, title_index, keyword_index, doc_metadata, N, avgdl,
    term_freq, common_typos, synonyms,
    call,           \* the last search() call: its arguments, its outcome and its intermediate values
    probe,          \* the last direct call of a helper: its arguments and its result
    inflight,       \* the search() calls of concurrent threads: for each thread that is in one,
                    \* its arguments, how far it is, and its intermediate values
    history,        \* the records of data/search_history.json, in the order of the file
    sessions        \* st.session_state of each browser session of the search page

ranker == <<blocks, frontcoded, vocabulary, index, doc_len, title_index, keyword_index,
            doc_metadata, N, avgdl, term_freq, common_typos, synonyms>>

vars == <<rows, hashSeed, damage, phase, ranker, call, probe, inflight, history, sessions>>

(***************************************************************************)
(* ImprovedDictionaryBM25Ranker: spelling correction and query expansion   *)
(***************************************************************************)
\* list(a_set): the elements in the set's iteration order, which the hash seed fixes
SetOrder(S) ==
    LET asc == SortStrings(S)
    IN  IF hashSeed = 0 THEN asc
        ELSE IF hashSeed = 1 THEN Reverse(asc)
        ELSE Rotate(asc, hashSeed - 1)

find_term_in_dictionary(term) == term \in vocabulary

\* self.term_freq.get(t, 0)
TermFreq(t) == IF t \in DOMAIN term_freq THEN term_freq[t] ELSE 0

\* max(seq, key=lambda t: self.term_freq.get(t, 0)): the first most frequent term
MostFrequent(seq) ==
    seq[CHOOSE i \in 1..Len(seq) :
            /\ \A j \in 1..Len(seq) : TermFreq(seq[j]) <= TermFreq(seq[i])
            /\ \A j \in 1..(i - 1) : TermFreq(seq[j]) < TermFreq(seq[i])]

\* stage 3 without the limit of 5 more characters: every term of the block that starts
\* with the word
PrefixMatchesOfAnyLength(word) ==
    IF Len(word) >= 3 /\ SubSeq(word, 1, 3) \in DOMAIN blocks
    THEN SelectSeq(blocks[SubSeq(word, 1, 3)], LAMBDA t : StartsWith(t, word))
    ELSE <<>>

\* stage 3: the terms of the word's block that complete it by at most 5 characters
PrefixMatches(word) ==
    IF Len(word) >= 3 /\ SubSeq(word, 1, 3) \in DOMAIN blocks
    THEN SelectSeq(blocks[SubSeq(word, 1, 3)],
                   LAMBDA t : StartsWith(t, word) /\ Len(t) <= Len(word) + 5)
    ELSE <<>>

\* stage 4 searching the word's own block only
SearchPrefixesOwnBlock(word) == IF Len(word) >= 3 THEN {SubSeq(word, 1, 3)} ELSE {}

\* stage 4 searching every block, whatever the length of the word
SearchPrefixesEveryBlock(word) == DOMAIN blocks

\* stage 4: word[:3] and every block key that replaces one of its letters by a-z
SearchPrefixes(word) ==
    IF Len(word) >= 3
    THEN {SubSeq(word, 1, 3)} \cup
         {v \in {SubSeq(word, 1, i) \o CharAt(Letters, c) \o SubSeq(word, i + 2, 3) :
                    i \in 0..(Min(3, Len(word)) - 1), c \in 1..Len(Letters)} :
             Len(v) >= 3 /\ v \in DOMAIN blocks}
    ELSE {}

\* max_distance = min(3, len(word) // 2)
MaxDistance(word) == Min(3, Len(word) \div 2)

Abs(n) == IF n < 0 THEN -n ELSE n

\* stage 4: the candidates (vocab_term, dist, freq), in the order they are appended
RECURSIVE FuzzyCandidatesFrom(_, _, _)
FuzzyCandidatesFrom(word, prefixes, i) ==
    IF i > Len(prefixes) THEN <<>>
    ELSE LET near == IF prefixes[i] \notin DOMAIN blocks THEN <<>>
                     ELSE SelectSeq(blocks[prefixes[i]],
                              LAMBDA t : /\ Abs(Len(t) - Len(word)) <= MaxDistance(word)
                                         /\ edit_distance(word, t) <= MaxDistance(word))
         IN  Stored([k \in 1..Len(near) |->
                        [term |-> near[k], dist |-> edit_distance(word, near[k]),
                         freq |-> TermFreq(near[k])]])
             \o FuzzyCandidatesFrom(word, prefixes, i + 1)

FuzzyCandidates(word) == FuzzyCandidatesFrom(word, SetOrder(SearchPrefixes(word)), 1)

\* candidates.sort(key=(dist, -freq))[0]: the first candidate no other one precedes
BestCandidate(cands) ==
    LET before(a, b) == a.dist < b.dist \/ (a.dist = b.dist /\ a.freq > b.freq)
    IN  cands[CHOOSE i \in 1..Len(cands) :
                  /\ \A j \in 1..Len(cands) : ~before(cands[j], cands[i])
                  /\ \A j \in 1..(i - 1) : before(cands[i], cands[j])]

\* correct_spelling with its stage 2, the common-typo table, left out
correct_spelling_untabled(word) ==
    IF find_term_in_dictionary(word)
    THEN [term |-> word, was_correct |-> TRUE, distance |-> 0]
    ELSE IF PrefixMatches(word) # <<>>
    THEN LET best == MostFrequent(PrefixMatches(word))
         IN  [term |-> best, was_correct |-> FALSE, distance |-> Len(best) - Len(word)]
    ELSE IF FuzzyCandidates(word) # <<>>
    THEN LET best == BestCandidate(FuzzyCandidates(word))
         IN  [term |-> best.term, was_correct |-> FALSE, distance |-> best.dist]
    ELSE [term |-> word, was_correct |-> FALSE, distance |-> 999]

\* correct_spelling with stage 3, the prefix completion, tried before stage 2, the
\* common-typo table
correct_spelling_prefix_first(word) ==
    IF find_term_in_dictionary(word)
    THEN [term |-> word, was_correct |-> TRUE, distance |-> 0]
    ELSE IF PrefixMatches(word) # <<>>
    THEN LET best == MostFrequent(PrefixMatches(word))
         IN  [term |-> best, was_correct |-> FALSE, distance |-> Len(best) - Len(word)]
    ELSE IF word \in DOMAIN common_typos /\ find_term_in_dictionary(common_typos[word])
    THEN [term |-> common_typos[word], was_correct |-> FALSE, distance |-> 1]
    ELSE IF FuzzyCandidates(word) # <<>>
    THEN LET best == BestCandidate(FuzzyCandidates(word))
         IN  [term |-> best.term, was_correct |-> FALSE, distance |-> best.dist]
    ELSE [term |-> word, was_correct |-> FALSE, distance |-> 999]

\* correct_spelling: (corrected, was_correct, distance)
correct_spelling(word) ==
    IF find_term_in_dictionary(word)
    THEN [term |-> word, was_correct |-> TRUE, distance |-> 0]
    ELSE IF word \in DOMAIN common_typos /\ find_term_in_dictionary(common_typos[word])
    THEN [term |-> common_typos[word], was_correct |-> FALSE, distance |-> 1]
    ELSE IF PrefixMatches(word) # <<>>
    THEN LET best == MostFrequent(PrefixMatches(word))
         IN  [term |-> best, was_correct |-> FALSE, distance |-> Len(best) - Len(word)]
    ELSE IF FuzzyCandidates(word) # <<>>
    THEN LET best == BestCandidate(FuzzyCandidates(word))
         IN  [term |-> best.term, was_correct |-> FALSE, distance |-> best.dist]
    ELSE [term |-> word, was_correct |-> FALSE, distance |-> 999]

\* list(self.synonyms[term])[:2]
TopSynonyms(term) ==
    IF term \in DOMAIN synonyms THEN Range(Take(SetOrder(synonyms[term]), 2)) ELSE {}

\* expand_query
expand_query(terms) ==
    SetOrder(Range(terms) \cup UNION {TopSynonyms(terms[i]) : i \in 1..Len(terms)})

\* the tokens of the query with none left out
AllTokens(query) == Split(Lower(query))

\* terms = [t for t in query.lower().strip().split() if len(t) > 1]
KeptTokens(query) == SelectSeq(Split(Lower(query)), LAMBDA t : Len(t) > 1)

\* the loop of preprocess_query: correct_spelling of every term, in order
CorrectAll(terms) == Stored([i \in 1..Len(terms) |-> correct_spelling(terms[i])])

\* the places of the terms correct_spelling did not find correct
Changed(fixed) == SelectSeq([i \in 1..Len(fixed) |-> i], LAMBDA i : ~fixed[i].was_correct)

\* corrected_terms
CorrectedTerms(fixed) == Stored([i \in 1..Len(fixed) |-> fixed[i].term])

\* preprocess_query without the test of the distances: the query is always expanded
PreprocessedAlwaysExpanded(terms, fixed, changed) ==
    [terms |-> expand_query(CorrectedTerms(fixed)),
     corrections |-> Stored([k \in 1..Len(changed) |->
                         [term |-> terms[changed[k]], corrected |-> fixed[changed[k]].term]]),
     confidence |-> Stored([k \in 1..Len(changed) |-> fixed[changed[k]].distance]),
     tokens |-> terms]

\* what preprocess_query returns after the loop: the query is expanded only when every
\* correction has a distance under 3
Preprocessed(terms, fixed, changed) ==
    [terms |-> IF \A k \in 1..Len(changed) : fixed[changed[k]].distance < 3
               THEN expand_query(CorrectedTerms(fixed))
               ELSE CorrectedTerms(fixed),
     corrections |-> Stored([k \in 1..Len(changed) |->
                         [term |-> terms[changed[k]], corrected |-> fixed[changed[k]].term]]),
     confidence |-> Stored([k \in 1..Len(changed) |-> fixed[changed[k]].distance]),
     tokens |-> terms]

\* preprocess_query from its loop on
PreprocessFixed(terms, fixed) == Preprocessed(terms, fixed, Changed(fixed))

\* preprocess_query from `if not terms` on
PreprocessTerms(terms) ==
    IF terms = <<>>
    THEN [terms |-> <<>>, corrections |-> <<>>, confidence |-> <<>>, tokens |-> <<>>]
    ELSE PreprocessFixed(terms, CorrectAll(terms))

\* preprocess_query: (expanded_terms, corrections), with the distances it decided on
preprocess_query(query) == PreprocessTerms(KeptTokens(query))

(***************************************************************************)
(* Query analysis                                                          *)
(***************************************************************************)
\* get_core_terms
get_core_terms(query_terms) ==
    LET core == SelectSeq(query_terms, LAMBDA t : t \notin GENERIC_TERMS)
    IN  IF core # <<>> THEN core ELSE query_terms

\* analyze_query_specificity by the count of the core terms alone, no domain looked at
analyze_query_specificity_by_count(query_terms) ==
    IF Len(get_core_terms(query_terms)) >= 3 THEN "specific"
    ELSE IF Len(get_core_terms(query_terms)) >= 2 THEN "moderate"
    ELSE "generic"

\* analyze_query_specificity
analyze_query_specificity(query_terms) ==
    LET core_terms == get_core_terms(query_terms)
        domain_match == \E p \in 1..Len(DOMAIN_PATTERNS) : \E i \in 1..Len(core_terms) :
                            InSeq(core_terms[i], DOMAIN_PATTERNS[p].terms)
    IN  IF Len(core_terms) >= 3 \/ (Len(core_terms) >= 2 /\ domain_match) THEN "specific"
        ELSE IF Len(core_terms) >= 2 THEN "moderate"
        ELSE "generic"

\* sum(1 for term in query_terms if term in info['terms'])
DomainMatches(query_terms, p) ==
    Cardinality({i \in 1..Len(query_terms) : InSeq(query_terms[i], DOMAIN_PATTERNS[p].terms)})

\* detect_query_domain returning the domain of the first query term that is in a domain,
\* the first such domain in table order
detect_query_domain_by_first_term(query_terms) ==
    IF \E p \in 1..Len(DOMAIN_PATTERNS) : DomainMatches(query_terms, p) > 0
    THEN LET i == CHOOSE k \in 1..Len(query_terms) :
                      /\ \E p \in 1..Len(DOMAIN_PATTERNS) : DomainMatches(<<query_terms[k]>>, p) > 0
                      /\ \A j \in 1..(k - 1) : \A p \in 1..Len(DOMAIN_PATTERNS) :
                             DomainMatches(<<query_terms[j]>>, p) = 0
             best == CHOOSE p \in 1..Len(DOMAIN_PATTERNS) :
                         /\ DomainMatches(<<query_terms[i]>>, p) > 0
                         /\ \A r \in 1..(p - 1) : DomainMatches(<<query_terms[i]>>, r) = 0
         IN  [domain |-> DOMAIN_PATTERNS[best].name, boost |-> DOMAIN_PATTERNS[best].boost]
    ELSE [domain |-> "general", boost |-> 1000]

\* detect_query_domain: the first domain, in table order, with the most matches
detect_query_domain(query_terms) ==
    IF \E p \in 1..Len(DOMAIN_PATTERNS) : DomainMatches(query_terms, p) > 0
    THEN LET best == CHOOSE p \in 1..Len(DOMAIN_PATTERNS) :
                        /\ \A r \in 1..Len(DOMAIN_PATTERNS) :
                               DomainMatches(query_terms, r) <= DomainMatches(query_terms, p)
                        /\ \A r \in 1..(p - 1) :
                               DomainMatches(query_terms, r) < DomainMatches(query_terms, p)
         IN  [domain |-> DOMAIN_PATTERNS[best].name, boost |-> DOMAIN_PATTERNS[best].boost]
    ELSE [domain |-> "general", boost |-> 1000]

(***************************************************************************)
(* Scoring                                                                 *)
(***************************************************************************)
\* term in self.index and doc_id in self.index[term]
InPostings(term, doc_id) == term \in DOMAIN index /\ doc_id \in DOMAIN index[term]

\* compute_idf with the classic idf, log((N - df + 0.5) / (df + 0.5)), without the + 1.0
compute_idf_classic(term) ==
    IF term \notin DOMAIN index THEN 0
    ELSE LET df == Cardinality(DOMAIN index[term])
             idf == LnRatioMicro(2 * N - 2 * df + 1, 2 * df + 1)
         IN  IF 2 * df > N THEN (idf * 4) \div 10
             ELSE IF 10 * df > 3 * N THEN (idf * 6) \div 10
             ELSE idf

\* compute_idf, in micro: log((N - df + 0.5) / (df + 0.5) + 1.0), damped for common terms
compute_idf(term) ==
    IF term \notin DOMAIN index THEN 0
    ELSE LET df == Cardinality(DOMAIN index[term])
             idf == LnRatioMicro((2 * N - 2 * df + 1) + (2 * df + 1), 2 * df + 1)
         IN  IF 2 * df > N THEN (idf * 4) \div 10
             ELSE IF 10 * df > 3 * N THEN (idf * 6) \div 10
             ELSE idf

\* self.doc_len.get(doc_id, 0)
DocLen(doc_id) == IF doc_id \in DOMAIN doc_len THEN doc_len[doc_id] ELSE 0

\* idf * (numerator / denominator) of one matching term, in micro
TermScore(term, doc_id) ==
    LET tf == index[term][doc_id]
        dl == DocLen(doc_id)
        ratio == (dl * avgdl.den * 1000) \div avgdl.num
        numerator == tf * (K1 + 1000)
        denominator == tf * 1000 + MulMilli(K1, (1000 - B) + MulMilli(B, ratio))
    IN  MulMilli(compute_idf(term), (numerator * 1000) \div denominator)

\* compute_bm25_score divides by self.avgdl for the first matching term of a document of
\* non-zero length: a ZeroDivisionError when the index file holds avg_doc_len = 0
Bm25Raises(query_terms, doc_id) ==
    /\ DocLen(doc_id) # 0
    /\ avgdl.num = 0
    /\ \E i \in 1..Len(query_terms) : InPostings(query_terms[i], doc_id)

\* compute_bm25_score without `if dl == 0: return 0.0`
compute_bm25_score_any_length(query_terms, doc_id) ==
    SumSeq(Stored([i \in 1..Len(query_terms) |->
                      IF InPostings(query_terms[i], doc_id)
                      THEN TermScore(query_terms[i], doc_id) ELSE 0]))

\* compute_bm25_score, in micro
compute_bm25_score(query_terms, doc_id) ==
    IF DocLen(doc_id) = 0 THEN 0
    ELSE SumSeq(Stored([i \in 1..Len(query_terms) |->
                           IF InPostings(query_terms[i], doc_id)
                           THEN TermScore(query_terms[i], doc_id) ELSE 0]))

\* t in field_index and doc_id in field_index[t]
InField(field_index, t, doc_id) == t \in DOMAIN field_index /\ doc_id \in field_index[t]

\* compute_term_coverage as (matches, len(core_terms))
compute_term_coverage(query_terms, doc_id) ==
    LET core_terms == get_core_terms(query_terms)
    IN  [matches |-> Cardinality({i \in 1..Len(core_terms) :
                        \/ InPostings(core_terms[i], doc_id)
                        \/ InField(title_index, core_terms[i], doc_id)
                        \/ InField(keyword_index, core_terms[i], doc_id)}),
         of |-> Len(core_terms)]

\* apply_boosting with the title, keyword and coverage bonuses left out
BoostMultDomainOnly(query_terms, doc_id, domain_boost) == domain_boost

\* the multiplier apply_boosting gives one document, in milli
BoostMult(query_terms, doc_id, domain_boost) ==
    LET core_terms == get_core_terms(query_terms)
        n == Len(core_terms)
        title_matches == Cardinality({i \in 1..n : InField(title_index, core_terms[i], doc_id)})
        kw_matches == Cardinality({i \in 1..n : InField(keyword_index, core_terms[i], doc_id)})
        title_bonus == IF title_matches = 0 THEN 0
                       ELSE IF 5 * title_matches >= 4 * n THEN (TITLE_BOOST * 15) \div 10
                       ELSE IF 5 * title_matches >= 3 * n THEN (TITLE_BOOST * 12) \div 10
                       ELSE (TITLE_BOOST * title_matches) \div n
        kw_bonus == IF kw_matches = 0 THEN 0 ELSE (KEYWORD_BOOST * kw_matches) \div n
        added == 1000 + title_bonus + kw_bonus
        perfect == IF title_matches = n /\ n >= 2 THEN added * 2 ELSE added
        coverage == compute_term_coverage(query_terms, doc_id)
        covered == IF coverage.of # 0 /\ 100 * coverage.matches >= IDEAL_TERM_COVERAGE * coverage.of
                   THEN (perfect * 14) \div 10
                   ELSE IF coverage.of # 0 /\ 10 * coverage.matches >= 6 * coverage.of
                   THEN (perfect * 12) \div 10
                   ELSE perfect
    IN  MulMilli(covered, domain_boost)

\* apply_boosting with the multiplier less the 1.0 it starts with
apply_boosting_less_one(query_terms, doc_scores, domain_boost) ==
    Stored([d \in DOMAIN doc_scores |->
               MulMilli(doc_scores[d], BoostMult(query_terms, d, domain_boost) - 1000)])

\* apply_boosting: boosted[doc_id] = base_score * mult
apply_boosting(query_terms, doc_scores, domain_boost) ==
    Stored([d \in DOMAIN doc_scores |->
               MulMilli(doc_scores[d], BoostMult(query_terms, d, domain_boost))])

(***************************************************************************)
(* Semantic filter and result limiter.  A Python dict is its keys in       *)
(* insertion order (a sequence) and its values (a function).               *)
(***************************************************************************)
\* metadata.get(name, '') of self.doc_metadata.get(doc_id, {})
Meta(doc_id, name) ==
    IF doc_id \in DOMAIN doc_metadata /\ name \in DOMAIN doc_metadata[doc_id]
    THEN doc_metadata[doc_id][name] ELSE ""

\* check_semantic_relevance
check_semantic_relevance(query_terms, doc_id) ==
    LET core_terms == get_core_terms(query_terms)
        doc_text == Lower(Meta(doc_id, "title") \o " " \o Meta(doc_id, "keywords")
                          \o " " \o Meta(doc_id, "abstract"))
        hit(term) == \/ Contains(doc_text, term)
                     \/ /\ term \in DOMAIN synonyms
                        /\ \E syn \in synonyms[term] : Contains(doc_text, syn)
        matches == Cardinality({i \in 1..Len(core_terms) : hit(core_terms[i])})
    IN  IF core_terms = <<>> THEN TRUE
        ELSE 10 * matches >= 7 * Len(core_terms)

\* sorted(items, key=score) without reverse=True: ascending
SortByScoreAscending(keys, val) ==
    LET place == Stored([i \in 1..Len(keys) |->
                    Cardinality({j \in 1..Len(keys) :
                        \/ val[keys[j]] < val[keys[i]]
                        \/ (val[keys[j]] = val[keys[i]] /\ j < i)}) + 1])
    IN  Stored([p \in 1..Len(keys) |-> keys[CHOOSE i \in 1..Len(keys) : place[i] = p]])

\* sorted(items, key=score, reverse=True): stable, so ties keep their order
SortByScore(keys, val) ==
    LET place == Stored([i \in 1..Len(keys) |->
                    Cardinality({j \in 1..Len(keys) :
                        \/ val[keys[j]] > val[keys[i]]
                        \/ (val[keys[j]] = val[keys[i]] /\ j < i)}) + 1])
    IN  Stored([p \in 1..Len(keys) |-> keys[CHOOSE i \in 1..Len(keys) : place[i] = p]])

\* sorted(scores.values(), reverse=True)[idx], idx counted from 0
ScoreAt(keys, val, idx) ==
    val[CHOOSE d \in Range(keys) :
            /\ Cardinality({i \in 1..Len(keys) : val[keys[i]] > val[d]}) <= idx
            /\ Cardinality({i \in 1..Len(keys) : val[keys[i]] >= val[d]}) > idx]

\* max_results with the generic limit for every class
MaxResultsGeneric(specificity) == MAX_RESULTS_GENERIC

\* max_results
MaxResults(specificity) ==
    IF specificity = "specific" THEN MAX_RESULTS_SPECIFIC
    ELSE IF specificity = "moderate" THEN MAX_RESULTS_MODERATE
    ELSE MAX_RESULTS_GENERIC

\* percentile, in hundredths
Percentile(specificity) ==
    IF specificity = "specific" THEN 25
    ELSE IF specificity = "moderate" THEN 35
    ELSE 45

\* cutoff_idx = max(8, int(len(score_values) * percentile))
CutoffIdx(count, specificity) == Max(8, (count * Percentile(specificity)) \div 100)

\* score_values[cutoff_idx] is an IndexError when cutoff_idx is no index of the list
FilterRaises(keys, specificity) ==
    Len(keys) > 20 /\ CutoffIdx(Len(keys), specificity) >= Len(keys)

\* threshold = max(adaptive_threshold, MIN_SCORE_THRESHOLD)
Threshold(keys, val, specificity) ==
    IF Len(keys) > 20
    THEN Max(ScoreAt(keys, val, CutoffIdx(Len(keys), specificity)), MIN_SCORE_THRESHOLD)
    ELSE MIN_SCORE_THRESHOLD

\* filter_results keeping the scores above the threshold only, not those equal to it
filter_results_strictly_above(keys, val, specificity) ==
    IF keys = <<>> THEN <<>>
    ELSE LET threshold == Threshold(keys, val, specificity)
             filtered == SelectSeq(keys, LAMBDA d : val[d] > threshold)
         IN  IF Len(filtered) > MaxResults(specificity)
             THEN Take(SortByScore(filtered, val), MaxResults(specificity))
             ELSE filtered

\* filter_results: the keys of the filtered dict, in its order
filter_results(keys, val, specificity) ==
    IF keys = <<>> THEN <<>>
    ELSE LET threshold == Threshold(keys, val, specificity)
             filtered == SelectSeq(keys, LAMBDA d : val[d] >= threshold)
         IN  IF Len(filtered) > MaxResults(specificity)
             THEN Take(SortByScore(filtered, val), MaxResults(specificity))
             ELSE filtered

(***************************************************************************)
(* search()                                                                *)
(***************************************************************************)
\* self.index[term].keys(): the documents of a postings list, in the order the index
\* builder met them, which is the order of the corpus
Postings(term) == IF term \in DOMAIN index THEN SortInts(DOMAIN index[term]) ELSE <<>>

\* the keys of candidate_docs, in insertion order: for term in query_terms, for doc_id in postings
RECURSIVE CollectFrom(_, _, _)
CollectFrom(query_terms, i, seen) ==
    IF i > Len(query_terms) THEN seen
    ELSE CollectFrom(query_terms, i + 1,
             seen \o SelectSeq(Postings(query_terms[i]), LAMBDA d : ~InSeq(d, seen)))

\* candidate_docs[doc_id]: one for every query term, repeated or not, whose postings hold doc_id
MatchCount(query_terms, doc_id) ==
    Cardinality({i \in 1..Len(query_terms) : InPostings(query_terms[i], doc_id)})

\* min_matches with min written for max
MinMatchesAtMostOne(query_terms, fraction) ==
    Min(1, (Len(get_core_terms(query_terms)) * fraction) \div 100)

\* min_matches = max(1, int(len(core_terms) * fraction)), fraction in hundredths
MinMatches(query_terms, fraction) ==
    Max(1, (Len(get_core_terms(query_terms)) * fraction) \div 100)

\* the coverage filter: the candidates with at least min_matches matching terms
CoverageFilter(query_terms, fraction) ==
    SelectSeq(CollectFrom(query_terms, 1, <<>>),
              LAMBDA d : MatchCount(query_terms, d) >= MinMatches(query_terms, fraction))

\* the fallback recomputing the candidates with IDEAL_TERM_COVERAGE
FallbackIdeal == IDEAL_TERM_COVERAGE

\* the fraction the fallback recomputes the candidates with
FallbackFraction == RELAXED_TERM_COVERAGE

\* the fallback taken only when no candidate is left
NeedsFallbackWhenEmpty(strict) == strict = <<>>

\* `if len(candidate_docs) < 5`
NeedsFallback(strict) == Len(strict) < 5

\* the pre-score semantic filter kept whatever it leaves
SemanticPrefilterKept(query_terms, candidates) ==
    SelectSeq(candidates, LAMBDA d : check_semantic_relevance(query_terms, d))

\* the post-score semantic filter reverted when fewer than 3 survive
SemanticPostfilterUnderThree(query_terms, limited) ==
    IF Len(SelectSeq(limited, LAMBDA d : check_semantic_relevance(query_terms, d))) < 3
    THEN limited
    ELSE SelectSeq(limited, LAMBDA d : check_semantic_relevance(query_terms, d))

\* the pre-score semantic filter: kept only when it leaves 3 documents or more
SemanticPrefilter(query_terms, candidates) ==
    LET semantically_relevant ==
            SelectSeq(candidates, LAMBDA d : check_semantic_relevance(query_terms, d))
    IN  IF Len(semantically_relevant) >= 3 THEN semantically_relevant ELSE candidates

\* the post-score semantic filter: reverted when fewer than min(3, len(scores) // 2) survive
SemanticPostfilter(query_terms, limited) ==
    LET final_scores == SelectSeq(limited, LAMBDA d : check_semantic_relevance(query_terms, d))
    IN  IF Len(final_scores) < Min(3, Len(limited) \div 2) THEN limited ELSE final_scores

\* seq[:k]
Slice(seq, k) == IF k >= 0 THEN Take(seq, k) ELSE SubSeq(seq, 1, Len(seq) + k)

\* one entry of the result list
ResultEntry(doc_id, score, domain, specificity) ==
    [doc_id |-> doc_id, score |-> score,
     title |-> Meta(doc_id, "title"), keywords |-> Meta(doc_id, "keywords"),
     abstract |-> Take(Meta(doc_id, "abstract"), 200) \o "...",
     authors |-> Meta(doc_id, "authors"),
     domain |-> domain, specificity |-> specificity]

\* search as it starts: the query preprocessed, nothing collected, nothing returned
Started(query, top_k, pre) ==
    [query |-> query, top_k |-> top_k, tokens |-> pre.tokens, terms |-> pre.terms,
     corrections |-> pre.corrections, confidence |-> pre.confidence,
     outcome |-> "returned", results |-> <<>>, stage |-> "preprocess",
     specificity |-> "", domain |-> "", strict |-> <<>>, fallback |-> FALSE,
     candidates |-> <<>>, pool |-> <<>>, scored |-> <<>>, scores |-> <<>>,
     limited |-> <<>>, final |-> <<>>]

\* the analysis and the candidates from the tokens of the user, the synonyms left out
AnalysedOverTokens(c, strict) ==
    [c EXCEPT !.stage = "collect",
              !.specificity = analyze_query_specificity(c.tokens),
              !.domain = detect_query_domain(c.terms).domain,
              !.strict = strict,
              !.fallback = NeedsFallback(strict),
              !.candidates = IF NeedsFallback(strict)
                             THEN CoverageFilter(c.terms, FallbackFraction)
                             ELSE strict]

\* `# Analyze` to `# Fallback`: the query analysed, the candidates under the strict
\* coverage, and under the relaxed one when fewer than 5 are left
Analysed(c, strict) ==
    [c EXCEPT !.stage = "collect",
              !.specificity = analyze_query_specificity(c.terms),
              !.domain = detect_query_domain(c.terms).domain,
              !.strict = strict,
              !.fallback = NeedsFallback(strict),
              !.candidates = IF NeedsFallback(strict)
                             THEN CoverageFilter(c.terms, FallbackFraction)
                             ELSE strict]

\* `if not query_terms: return []`, then the analysis and the candidates
Collected(c) ==
    IF c.terms = <<>> THEN c ELSE Analysed(c, CoverageFilter(c.terms, MIN_TERM_COVERAGE))

\* `if not candidate_docs: return []`, then the semantic filter before the scores
Pooled(c) ==
    IF c.candidates = <<>> THEN c
    ELSE [c EXCEPT !.stage = "score", !.pool = SemanticPrefilter(c.terms, c.candidates)]

\* `# Boost`: the boosted scores of the documents with a BM25 score above 0
Boosted(c, bm25, scored) ==
    [c EXCEPT !.stage = "limit",
              !.scored = scored,
              !.scores = apply_boosting(c.terms, Stored([d \in Range(scored) |-> bm25[d]]),
                                        detect_query_domain(c.terms).boost)]

\* `# Score` from the BM25 score of every document of the pool on
Positive(c, bm25) == Boosted(c, bm25, SelectSeq(c.pool, LAMBDA d : bm25[d] > 0))

\* `# Score` and `# Boost`: the BM25 scores and their boosts
Scored(c) ==
    IF c.stage # "score" THEN c
    ELSE IF \E d \in Range(c.pool) : Bm25Raises(c.terms, d)
    THEN [c EXCEPT !.outcome = "ZeroDivisionError"]
    ELSE Positive(c, Stored([d \in Range(c.pool) |-> compute_bm25_score(c.terms, d)]))

\* `# Sort and format`: the entries of the results, sorted by score and cut to top_k
Returned(c, top) ==
    [c EXCEPT !.stage = "done",
              !.results = Stored([i \in 1..Len(top) |->
                              ResultEntry(top[i], c.scores[top[i]], c.domain, c.specificity)])]

\* from final_scores on: the sort, the cut and the entries
Checked(c, final) ==
    Returned([c EXCEPT !.final = final], Slice(SortByScore(final, c.scores), c.top_k))

\* from the filtered scores on: the final semantic check, the sort and the cut
Filtered(c, limited) ==
    Checked([c EXCEPT !.limited = limited], SemanticPostfilter(c.terms, limited))

\* `# Filter` to the end: filter_results, the final semantic check, the sort and the cut
Limited(c) ==
    IF c.stage # "limit" \/ c.outcome # "returned" THEN c
    ELSE IF FilterRaises(c.scored, c.specificity)
    THEN [c EXCEPT !.outcome = "IndexError"]
    ELSE Filtered(c, filter_results(c.scored, c.scores, c.specificity))

\* search(query, top_k): the outcome, the result list and what every step left; stage is
\* the last part of search the call entered
search(query, top_k) ==
    Limited(Scored(Pooled(Collected(Started(query, top_k, preprocess_query(query))))))
(***************************************************************************)
(* Bounded inputs: the thesis table, the queries, top_k                    *)
(***************************************************************************)
\* the rows a table is made of, as extract_fields leaves them: every column of
\* FIELD_WEIGHTS, empty when the thesis has none
RowKinds == <<
    [Title |-> "machine learning", Keywords |-> "klasifikasi citra",
     Abstract |-> "penelitian machine learning klasifikasi citra", BAB1 |-> "metode hasil uji"],
    [Title |-> "sistem informasi akademik", Keywords |-> "informasi akademik",
     Abstract |-> "machine sistem kampus", BAB1 |-> "metode hasil uji"],
    [Title |-> "deteksi penyakit jantung", Keywords |-> "penyakit jantung",
     Abstract |-> "deteksi penyakit jantung pasien", BAB1 |-> "metode hasil uji"],
    [Title |-> "jantung koroner", Keywords |-> "", Abstract |-> "", BAB1 |-> ""],
    [Title |-> "kompresi audio stereo", Keywords |-> "kompresi audio stereo",
     Abstract |-> "kompresi audio stereo", BAB1 |-> "uji"],
    [Title |-> "kompresi audio", Keywords |-> "audio",
     Abstract |-> "kompresi audio stereo radio", BAB1 |-> "metode hasil uji"],
    [Title |-> "pengolahan sinyal suara", Keywords |-> "sinyal suara",
     Abstract |-> "pengolahan sinyal suara", BAB1 |-> "metode hasil uji"],
    [Title |-> "jaringan komputer kampus", Keywords |-> "jaringan komputer",
     Abstract |-> "jaringan komputer", BAB1 |-> "cipher cipher cipher"],
    [Title |-> "machine lerning data", Keywords |-> "komputasi komputer",
     Abstract |-> "machines learning dana kompresi komputerisasinya",
     BAB1 |-> "metode hasil uji"],
    [Title |-> "komputasi data", Keywords |-> "komputer machines",
     Abstract |-> "komputerisasinya komputasi data komputer", BAB1 |-> "metode hasil uji"],
    [Title |-> "komputerisasinya arsip", Keywords |-> "arsip",
     Abstract |-> "komputerisasinya arsip digital", BAB1 |-> "metode hasil uji arsip"] >>

\* the fields of a row of kind k, under the column names of FIELD_WEIGHTS
RowOf(k) ==
    [Title |-> RowKinds[k].Title, Keywords |-> RowKinds[k].Keywords,
     Abstract |-> RowKinds[k].Abstract, Authors |-> "", Advisors |-> ""]
    @@ ("BAB 1" :> RowKinds[k].BAB1) @@ ("BAB 2" :> "") @@ ("BAB 3" :> "")
    @@ ("BAB 4" :> "") @@ ("BAB 5" :> "")

\* the table with the rows of the given kinds, in their order
TableOf(kinds) == Stored([i \in 1..Len(kinds) |-> RowOf(kinds[i])])

\* the kinds the small tables are made of: the theses A and B
SmallKinds == 1..2

MaxRows == 2

\* the small tables: at most MaxRows rows, each of a small kind, in any order
SmallTables == {TableOf(kinds) : kinds \in UNION {[1..n -> SmallKinds] : n \in 0..MaxRows}}

\* tables of three or four theses that are kept, on one to three subjects
ToyTables ==
    {TableOf(<<1, 2, 3>>), TableOf(<<3, 4, 2, 1>>), TableOf(<<6, 5, 1>>), TableOf(<<1, 1, 2, 1>>)}

BulkRows == 56

TailRows == 2

FillRows == 34

PairRows == 2

\* the kinds of the rows of the large table: BulkRows theses on one subject, TailRows
\* weaker ones on it, FillRows on a second subject, PairRows on a third, and one more
BulkKinds ==
    [i \in 1..BulkRows |-> 5] \o [i \in 1..TailRows |-> 6] \o [i \in 1..FillRows |-> 3]
    \o [i \in 1..PairRows |-> 7] \o <<8>>

BulkTable == TableOf(BulkKinds)

Tables == SmallTables \cup ToyTables \cup {BulkTable}

HashSeeds == 2

QueryTokens == <<"machine", "jantung", "audio">>

MaxQueryTokens == 1

\* the queries of main(), blank and one-letter queries, queries on the subjects of the
\* tables, and every query of at most MaxQueryTokens of the QueryTokens
Queries ==
    {"", "   ", "a", "a b", "ke",
     "detksi penykti jntung", "machin lerning", "sistem rekomndasi", "klasifikasi penyakit",
     "machine learning", " Machine  Learning\t", "machine learning kampus pasien",
     "penyakit jantung", "kompresi audio stereo", "kompresi audio", "metode", "cipher",
     "kompresi audio stereo sinyal", "kampus pasien",
     "deteksi sinyal audio cipher"}
    \cup {Join(q, " ") : q \in UNION {[1..n -> Range(QueryTokens)] : n \in 1..MaxQueryTokens}}

MaxTopK == 1

\* top_k: the small values, a negative one, the default 10 and the 100 of the evaluation scripts
TopKs == (-1..MaxTopK) \cup {10, 100}

\* the term lists and documents compute_bm25_score is called with directly
ProbeTerms == {"machine", "metode"}

MaxProbeTerms == 1

ProbeLists == UNION {[1..n -> ProbeTerms] : n \in 0..MaxProbeTerms}

MaxProbeDocs == 4

(***************************************************************************)
(* The state machine                                                       *)
(***************************************************************************)
\* the keys of index.json that __init__ reads
IndexKeys ==
    {"index", "doc_len", "title_index", "keyword_index", "doc_metadata", "num_docs",
     "avg_doc_len"}

NoDamage == <<"none", "none">>

\* a file that is not there, or that is not JSON
FileFaults ==
    {<<f, s>> : f \in {"blocks", "frontcoded", "index"}, s \in {"missing", "malformed"}}

\* an index file without one of the keys
KeyFaults == {<<"index", k>> : k \in IndexKeys}

\* an index file whose avg_doc_len is 0
ZeroAvgdl == <<"index", "avg_doc_len = 0">>

\* an index file whose doc_len holds 0 for its first document, or no entry for it
LengthFaults == {<<"doc_len", "first entry = 0">>, <<"doc_len", "no first entry">>}

\* the ways a data directory differs from the one the builders leave
Damages == {NoDamage, ZeroAvgdl} \cup FileFaults \cup KeyFaults \cup LengthFaults

\* the files of the data directory with the damage d: the state of each file, and the
\* JSON value of each
Damaged(files, d) ==
    [state |-> [f \in {"blocks", "frontcoded", "index"} |->
                   IF d \in FileFaults /\ d[1] = f THEN d[2] ELSE "ok"],
     blocks |-> files.blocks,
     frontcoded |-> files.frontcoded,
     index |-> IF d \in KeyFaults
               THEN [k \in DOMAIN files.index \ {d[2]} |-> files.index[k]]
               ELSE IF d = ZeroAvgdl
               THEN [files.index EXCEPT !.avg_doc_len = [num |-> 0, den |-> 1]]
               ELSE IF d \in LengthFaults /\ files.index.doc_len # <<>>
               THEN LET first == CHOOSE e \in DOMAIN files.index.doc_len :
                                     \A o \in DOMAIN files.index.doc_len : e <= o
                    IN  [files.index EXCEPT !.doc_len =
                            IF d[2] = "first entry = 0"
                            THEN Stored([e \in DOMAIN files.index.doc_len |->
                                            IF e = first THEN 0 ELSE files.index.doc_len[e]])
                            ELSE Stored([e \in DOMAIN files.index.doc_len \ {first} |->
                                            files.index.doc_len[e]])]
               ELSE files.index]

NoCall == [outcome |-> "none"]

NoProbe == [fn |-> "none"]

Init ==
    /\ rows \in Tables
    /\ hashSeed \in 0..(HashSeeds - 1)
    /\ damage = NoDamage
    /\ phase = "unloaded"
    /\ blocks = <<>> /\ frontcoded = <<>> /\ vocabulary = {}
    /\ index = <<>> /\ doc_len = <<>> /\ title_index = <<>> /\ keyword_index = <<>>
    /\ doc_metadata = <<>> /\ N = 0 /\ avgdl = [num |-> 0, den |-> 1]
    /\ term_freq = <<>> /\ common_typos = <<>> /\ synonyms = <<>>
    /\ call = NoCall
    /\ probe = NoProbe
    /\ inflight = <<>>
    /\ history = <<>> /\ sessions = <<>>

\* the data directory the builders leave: index.json, blocks.json and frontcoded.json
DataFiles(table) ==
    LET data == build_positional_index(BuildCorpus(table))
        blocks_file == BuildBlocks(DOMAIN data.index)
    IN  [index |-> data, blocks |-> blocks_file, frontcoded |-> BuildFrontcoded(blocks_file)]

\* __init__ raises: open() on a missing file, json.load on a malformed one, and
\* data['index'], data['doc_len'], data['num_docs'], data['avg_doc_len'] on a missing key
InitRaises(files) ==
    \/ \E f \in DOMAIN files.state : files.state[f] # "ok"
    \/ \E k \in {"index", "doc_len", "num_docs", "avg_doc_len"} : k \notin DOMAIN files.index

\* data.get(key, {})
Get(data, key) == IF key \in DOMAIN data THEN data[key] ELSE <<>>

\* __init__: the fields of the ranker, read from the files of the data directory
ImprovedDictionaryBM25Ranker(files) ==
    [blocks |-> files.blocks,
     frontcoded |-> files.frontcoded,
     vocabulary |-> UNION {Range(decode_frontcoded(files.frontcoded[k])) :
                             k \in DOMAIN files.frontcoded},
     index |-> files.index.index,
     doc_len |-> files.index.doc_len,
     title_index |-> Get(files.index, "title_index"),
     keyword_index |-> Get(files.index, "keyword_index"),
     doc_metadata |-> Get(files.index, "doc_metadata"),
     N |-> files.index.num_docs,
     avgdl |-> files.index.avg_doc_len,
     term_freq |-> Stored([t \in DOMAIN files.index.index |->
                              Cardinality(DOMAIN files.index.index[t])]),
     common_typos |-> BuildCommonTypos,
     synonyms |-> BuildSynonyms]

\* ranker = ImprovedDictionaryBM25Ranker(data_dir): the ranker, or no ranker when
\* __init__ raises
Load ==
    /\ phase = "unloaded"
    /\ \E files \in {Damaged(DataFiles(rows), damage)} :
         IF InitRaises(files)
         THEN /\ phase' = "failed"
              /\ UNCHANGED ranker
         ELSE /\ \E self \in {ImprovedDictionaryBM25Ranker(files)} :
                     /\ blocks' = self.blocks
                     /\ frontcoded' = self.frontcoded
                     /\ vocabulary' = self.vocabulary
                     /\ index' = self.index
                     /\ doc_len' = self.doc_len
                     /\ title_index' = self.title_index
                     /\ keyword_index' = self.keyword_index
                     /\ doc_metadata' = self.doc_metadata
                     /\ N' = self.N
                     /\ avgdl' = self.avgdl
                     /\ term_freq' = self.term_freq
                     /\ common_typos' = self.common_typos
                     /\ synonyms' = self.synonyms
              /\ phase' = "ready"
    /\ UNCHANGED <<rows, hashSeed, damage, history, sessions, inflight, call, probe>>

\* ranker.search(query, top_k)
Search(query, top_k) ==
    /\ phase = "ready"
    /\ call' = search(query, top_k)
    /\ phase' = "returned"
    /\ UNCHANGED <<rows, hashSeed, damage, history, sessions, inflight, ranker, probe>>

\* ranker.compute_bm25_score(query_terms, doc_id) and the same with one more term
Score(query_terms, term, doc_id) ==
    /\ phase = "ready"
    /\ ~Bm25Raises(Append(query_terms, term), doc_id)
    /\ probe' = [fn |-> "compute_bm25_score", query_terms |-> query_terms, term |-> term,
                 doc_id |-> doc_id,
                 score |-> compute_bm25_score(query_terms, doc_id),
                 extended |-> compute_bm25_score(Append(query_terms, term), doc_id)]
    /\ phase' = "probed"
    /\ UNCHANGED <<rows, hashSeed, damage, history, sessions, inflight, ranker, call>>

\* the caller takes the result; the ranker serves the next query
Return ==
    /\ phase \in {"returned", "probed"}
    /\ phase' = "ready"
    /\ call' = NoCall
    /\ probe' = NoProbe
    /\ UNCHANGED <<rows, hashSeed, damage, history, sessions, inflight, ranker>>

Next ==
    \/ Load
    \/ \E query \in Queries, top_k \in TopKs : Search(query, top_k)
    \/ \E query_terms \in ProbeLists, term \in ProbeTerms, doc_id \in 0..MaxProbeDocs :
           Score(query_terms, term, doc_id)
    \/ Return

Spec == Init /\ [][Next]_vars


(***************************************************************************)
(* Calls of the functions that read no index: the query analysis,         *)
(* edit_distance and decode_frontcoded, each on arguments fixed at the     *)
(* start                                                                   *)
(***************************************************************************)
\* terms of three domains of DOMAIN_PATTERNS, one term of none, and two GENERIC_TERMS
DomainTerms == {"cipher", "machine", "learning", "jantung", "kampus", "dan", "untuk"}

MaxDomainTerms == 3

\* the same terms in the order p
Reordered(query_terms, p) == [i \in 1..Len(query_terms) |-> query_terms[p[i]]]

\* pending calls detect_query_domain(query_terms) and detect_query_domain(reordered)
DetectCalls ==
    {[fn |-> "detect_query_domain", done |-> FALSE, query_terms |-> query_terms,
      reordered |-> Reordered(query_terms, p)] :
        <<query_terms, p>> \in UNION {[1..n -> DomainTerms] \X Permutations(1..n) :
                                         n \in 0..MaxDomainTerms}}

\* `# Analyze`: analyze_query_specificity(query_terms) and detect_query_domain(query_terms),
\* the latter on the reordered list as well; the methods read GENERIC_TERMS and
\* DOMAIN_PATTERNS and no field of the ranker
Detect ==
    /\ probe.fn = "detect_query_domain" /\ ~probe.done
    /\ probe' = [fn |-> "detect_query_domain", done |-> TRUE,
                 query_terms |-> probe.query_terms, reordered |-> probe.reordered,
                 specificity |-> analyze_query_specificity(probe.query_terms),
                 result |-> detect_query_domain(probe.query_terms),
                 result_reordered |-> detect_query_domain(probe.reordered)]
    /\ UNCHANGED <<rows, hashSeed, damage, history, sessions, inflight, phase, ranker, call>>

\* the letters the strings given to edit_distance are made of
WordLetters == {"a", "b"}

MaxWordLen == 3

\* the strings of at most MaxWordLen letters
Words == {Join(w, "") : w \in UNION {[1..n -> WordLetters] : n \in 0..MaxWordLen}}

\* pending calls edit_distance(s1, s2) and edit_distance(s2, s1)
DistanceCalls ==
    {[fn |-> "edit_distance", done |-> FALSE, s1 |-> s1, s2 |-> s2] : s1 \in Words, s2 \in Words}

\* edit_distance(s1, s2), and edit_distance(s2, s1)
Distance ==
    /\ probe.fn = "edit_distance" /\ ~probe.done
    /\ probe' = [fn |-> "edit_distance", done |-> TRUE, s1 |-> probe.s1, s2 |-> probe.s2,
                 result |-> edit_distance(probe.s1, probe.s2),
                 result_swapped |-> edit_distance(probe.s2, probe.s1)]
    /\ UNCHANGED <<rows, hashSeed, damage, history, sessions, inflight, phase, ranker, call>>

\* terms of the block "kom": the key itself and terms with suffixes of one letter and more
KeyedTerms == {"kom", "komp", "komu", "kompa", "kompu", "komputer", "komputasi"}

MaxBlockTerms == 4

\* the blocks find_block can form: at most MaxBlockTerms terms of a three-letter key, and
\* the single term of a block whose key is a term shorter than three letters
BlockTerms ==
    {terms \in SUBSET KeyedTerms : Cardinality(terms) \in 1..MaxBlockTerms}
        \cup {{"ko"}, {"k"}}

\* pending calls decode_frontcoded(frontcoded_str) on the encoding of each block
DecodeCalls ==
    {[fn |-> "decode_frontcoded", done |-> FALSE, terms |-> terms,
      frontcoded_str |-> EncodeBlock(BlockKey(CHOOSE t \in terms : TRUE), SortStrings(terms))] :
        terms \in BlockTerms}

\* decode_frontcoded(frontcoded_str)
Decode ==
    /\ probe.fn = "decode_frontcoded" /\ ~probe.done
    /\ probe' = [fn |-> "decode_frontcoded", done |-> TRUE, terms |-> probe.terms,
                 frontcoded_str |-> probe.frontcoded_str,
                 decoded |-> decode_frontcoded(probe.frontcoded_str)]
    /\ UNCHANGED <<rows, hashSeed, damage, history, sessions, inflight, phase, ranker, call>>

\* one call is pending; no ranker is loaded
UnitInit ==
    /\ rows = TableOf(<<1, 2, 3>>)
    /\ hashSeed = 0
    /\ damage = NoDamage
    /\ phase = "unloaded"
    /\ blocks = <<>> /\ frontcoded = <<>> /\ vocabulary = {}
    /\ index = <<>> /\ doc_len = <<>> /\ title_index = <<>> /\ keyword_index = <<>>
    /\ doc_metadata = <<>> /\ N = 0 /\ avgdl = [num |-> 0, den |-> 1]
    /\ term_freq = <<>> /\ common_typos = <<>> /\ synonyms = <<>>
    /\ call = NoCall
    /\ probe \in DetectCalls \cup DistanceCalls \cup DecodeCalls
    /\ inflight = <<>>
    /\ history = <<>> /\ sessions = <<>>

UnitNext ==
    \/ Detect
    \/ Distance
    \/ Decode

UnitSpec == UnitInit /\ [][UnitNext]_vars

(***************************************************************************)
(* The ranker on data directories that are not what the builders leave     *)
(***************************************************************************)
\* the data directory of three theses, whole or with one damage
FileInit ==
    /\ rows \in ToyTables
    /\ hashSeed \in 0..(HashSeeds - 1)
    /\ damage \in Damages
    /\ phase = "unloaded"
    /\ blocks = <<>> /\ frontcoded = <<>> /\ vocabulary = {}
    /\ index = <<>> /\ doc_len = <<>> /\ title_index = <<>> /\ keyword_index = <<>>
    /\ doc_metadata = <<>> /\ N = 0 /\ avgdl = [num |-> 0, den |-> 1]
    /\ term_freq = <<>> /\ common_typos = <<>> /\ synonyms = <<>>
    /\ call = NoCall
    /\ probe = NoProbe
    /\ inflight = <<>>
    /\ history = <<>> /\ sessions = <<>>

FileNext ==
    \/ Load
    \/ \E query \in Queries, top_k \in TopKs : Search(query, top_k)
    \/ Return

FileSpec == FileInit /\ [][FileNext]_vars

(***************************************************************************)
(* Threads that call search() on one ranker at the same time.  A thread    *)
(* runs its call part by part, and the parts of different calls interleave *)
(***************************************************************************)
MaxThreads == 2

Threads == 1..MaxThreads

\* the queries of the concurrent calls: one that is expanded and one that is corrected
ThreadQueries == {"penyakit jantung", "learnin machine"}

\* a thread that is in no call
Idle == [pc |-> "idle"]

\* the next part of search() run by a thread that is in a call
Advance(th) ==
    IF th.pc = "preprocess_query"
    THEN [th EXCEPT !.pc = "collect",
                    !.c = Started(th.query, th.top_k, preprocess_query(th.query))]
    ELSE IF th.pc = "collect" THEN [th EXCEPT !.pc = "pool", !.c = Collected(th.c)]
    ELSE IF th.pc = "pool" THEN [th EXCEPT !.pc = "score", !.c = Pooled(th.c)]
    ELSE IF th.pc = "score" THEN [th EXCEPT !.pc = "filter", !.c = Scored(th.c)]
    ELSE [th EXCEPT !.pc = "done", !.c = Limited(th.c)]

\* thread t calls ranker.search(query, top_k)
Begin(t, query, top_k) ==
    /\ phase = "ready"
    /\ inflight[t] = Idle
    /\ inflight' = [inflight EXCEPT ![t] = [pc |-> "preprocess_query", query |-> query,
                                            top_k |-> top_k, c |-> NoCall]]
    /\ UNCHANGED <<rows, hashSeed, damage, history, sessions, phase, ranker, call, probe>>

\* a search() that keeps what it corrected: the corrections of preprocess_query are
\* stored into self.common_typos
StepLearningTypos(t) ==
    /\ inflight[t].pc \in {"preprocess_query", "collect", "pool", "score", "filter"}
    /\ inflight' = [inflight EXCEPT ![t] = Advance(inflight[t])]
    /\ common_typos' =
           IF inflight[t].pc = "preprocess_query"
           THEN LET made == preprocess_query(inflight[t].query).corrections
                IN  [w \in DOMAIN common_typos \cup {made[i].term : i \in 1..Len(made)} |->
                        IF \E i \in 1..Len(made) : made[i].term = w
                        THEN (CHOOSE e \in Range(made) : e.term = w).corrected
                        ELSE common_typos[w]]
           ELSE common_typos
    /\ UNCHANGED <<blocks, frontcoded, vocabulary, index, doc_len, title_index,
                   keyword_index, doc_metadata, N, avgdl, term_freq, synonyms>>
    /\ UNCHANGED <<rows, hashSeed, damage, history, sessions, phase, call, probe>>

\* thread t runs the next part of its call; search() assigns to local names only
Step(t) ==
    /\ inflight[t].pc \in {"preprocess_query", "collect", "pool", "score", "filter"}
    /\ inflight' = [inflight EXCEPT ![t] = Advance(inflight[t])]
    /\ UNCHANGED <<rows, hashSeed, damage, history, sessions, phase, ranker, call, probe>>

\* thread t's call returns
Finish(t) ==
    /\ inflight[t].pc = "done"
    /\ inflight' = [inflight EXCEPT ![t] = Idle]
    /\ UNCHANGED <<rows, hashSeed, damage, history, sessions, phase, ranker, call, probe>>

\* no ranker yet, and no thread in a call
ThreadInit ==
    /\ rows = TableOf(<<3, 4, 2, 1>>)
    /\ hashSeed \in 0..(HashSeeds - 1)
    /\ damage = NoDamage
    /\ phase = "unloaded"
    /\ blocks = <<>> /\ frontcoded = <<>> /\ vocabulary = {}
    /\ index = <<>> /\ doc_len = <<>> /\ title_index = <<>> /\ keyword_index = <<>>
    /\ doc_metadata = <<>> /\ N = 0 /\ avgdl = [num |-> 0, den |-> 1]
    /\ term_freq = <<>> /\ common_typos = <<>> /\ synonyms = <<>>
    /\ call = NoCall
    /\ probe = NoProbe
    /\ inflight = [t \in Threads |-> Idle]
    /\ history = <<>> /\ sessions = <<>>

ThreadNext ==
    \/ Load
    \/ \E t \in Threads, query \in ThreadQueries : Begin(t, query, 10)
    \/ \E t \in Threads : Step(t)
    \/ \E t \in Threads : Finish(t)

ThreadSpec == ThreadInit /\ [][ThreadNext]_vars

(***************************************************************************)
(* Direct calls of correct_spelling and preprocess_query on a loaded ranker *)
(***************************************************************************)
\* tables whose vocabulary holds a misspelling of the typo table (lerning), a term and a
\* longer, more frequent one (machine, machines), terms one letter apart (data, dana),
\* and a block of four terms (kom); and the same without machine and learning
SpellTables == {TableOf(<<9, 10, 11>>), TableOf(<<10, 11>>), TableOf(<<1, 2, 3>>)}

\* words of the vocabulary, of the typo table, beginnings of terms, misspellings, and
\* words of fewer than three letters
SpellWords ==
    {"machine", "machin", "mach", "lerning", "learnnig", "detksi", "sistim", "komp",
     "kompu", "kom", "komputeri", "konputer", "xomputer", "dara", "dano", "adta", "arsp",
     "digital", "ui", "ko", "metodee", "hasik", "jantng", "penyakitt", "kampuz"}

\* ranker.correct_spelling(word)
Correct(word) ==
    /\ phase = "ready"
    /\ probe' = [fn |-> "correct_spelling", word |-> word, result |-> correct_spelling(word)]
    /\ phase' = "probed"
    /\ UNCHANGED <<rows, hashSeed, damage, history, sessions, inflight, ranker, call>>

\* queries whose corrections are all near, and queries with a word that is completed by
\* more than 2 characters or not corrected at all, a word of two letters among them; with
\* and without repeated words and words that have synonyms
SpellQueries ==
    {"", "a b", "deteksi penyakit", "detksi penyakit jantung", "sistem rekomndasi",
     "sistem sistem rekomndasi", "mach data", "machin lerning",
     "machine machine learning", "sistim kampuz", "sistem deteksi", "komp data data",
     "ui sistem"}

\* ranker.preprocess_query(query)
Preprocess(query) ==
    /\ phase = "ready"
    /\ probe' = [fn |-> "preprocess_query", query |-> query,
                 result |-> preprocess_query(query)]
    /\ phase' = "probed"
    /\ UNCHANGED <<rows, hashSeed, damage, history, sessions, inflight, ranker, call>>

SpellInit ==
    /\ rows \in SpellTables
    /\ hashSeed \in 0..(HashSeeds - 1)
    /\ damage = NoDamage
    /\ phase = "unloaded"
    /\ blocks = <<>> /\ frontcoded = <<>> /\ vocabulary = {}
    /\ index = <<>> /\ doc_len = <<>> /\ title_index = <<>> /\ keyword_index = <<>>
    /\ doc_metadata = <<>> /\ N = 0 /\ avgdl = [num |-> 0, den |-> 1]
    /\ term_freq = <<>> /\ common_typos = <<>> /\ synonyms = <<>>
    /\ call = NoCall
    /\ probe = NoProbe
    /\ inflight = <<>>
    /\ history = <<>> /\ sessions = <<>>

SpellNext ==
    \/ Load
    \/ \E word \in SpellWords : Correct(word)
    \/ \E query \in SpellQueries : Preprocess(query)
    \/ Return

SpellSpec == SpellInit /\ [][SpellNext]_vars
(***************************************************************************)
(* The search page, 🔍_SearchEngine.py: one run of main() for each event   *)
(* of a browser session, on the ranker that load_ranker() caches for all   *)
(* sessions and the history file that all sessions share                   *)
(***************************************************************************)
MaxSessions == 2

MaxSearches == 2

MaxElapsed == 2

\* the choices of the domain filter that the page is run with, "Semua" being no filter,
\* and the domain each stands for in domain_map
DomainFilters == [Semua |-> "", MedicalHealth |-> "medical"]

\* `# Perform search` of main(), from the list search returned on: the domain filter, the
\* record appended to the history of the session and saved; state is st.session_state,
\* made the call of ranker.search, elapsed the time it took
Performed(state, made, domain_filter, elapsed) ==
    LET results == IF DomainFilters[domain_filter] = "" THEN made.results
                   ELSE SelectSeq(made.results,
                                  LAMBDA r : r.domain = DomainFilters[domain_filter])
    IN  IF made.outcome = "returned"
        THEN [state EXCEPT !.query = made.query, !.search_time = elapsed,
                           !.current_results = results,
                           !.search_history =
                               Append(@, [query |-> made.query, num_results |-> Len(results),
                                          search_time |-> elapsed]),
                           !.saved = TRUE,
                           !.searches = @ + 1]
        \* except Exception: st.error, current_results = []
        ELSE [state EXCEPT !.query = made.query, !.current_results = <<>>,
                           !.saved = FALSE, !.searches = @ + 1]

\* main() run by session s for one event: the page opened or rerun (""), the button
\* "Cari" with the text of the search box, or the button "Hapus Riwayat"; top_k and
\* domain_filter are the options of the sidebar, elapsed the time search took; the result
\* order is the default "Relevansi (Score)" and no detail view is open
main(s, event, query, top_k, domain_filter, elapsed) ==
    /\ phase \in {"ready", "failed"}
    /\ \E state \in {IF sessions[s].open THEN sessions[s]
                      \* initialize_session_state
                      ELSE [open |-> TRUE, search_history |-> history,
                            current_results |-> <<>>, query |-> "", search_time |-> 0,
                            saved |-> FALSE, searches |-> 0]} :
         IF phase = "failed"
         \* load_ranker() raises: st.error, st.stop()
         THEN /\ event = ""
              /\ ~sessions[s].open
              /\ sessions' = [sessions EXCEPT ![s] = state]
              /\ UNCHANGED history
         ELSE IF event = "Cari" /\ query # ""
         THEN /\ state.searches < MaxSearches
              /\ \E after \in {Performed(state, search(query, top_k), domain_filter, elapsed)} :
                     /\ sessions' = [sessions EXCEPT ![s] = after]
                     \* save_search_history(st.session_state.search_history)
                     /\ history' = IF after.saved THEN after.search_history ELSE history
         ELSE IF event = "Hapus Riwayat"
         \* render_search_history: the button is there when the session has a history
         THEN /\ state.search_history # <<>>
              /\ sessions' = [sessions EXCEPT ![s] = [state EXCEPT !.search_history = <<>>]]
              /\ history' = <<>>
         ELSE /\ event = ""
              /\ ~sessions[s].open
              /\ sessions' = [sessions EXCEPT ![s] = state]
              /\ UNCHANGED history
    /\ UNCHANGED <<rows, hashSeed, damage, phase, ranker, call, probe, inflight>>

\* the data directory of three theses, as built or with avg_doc_len = 0; no history file;
\* no session has opened the page
AppInit ==
    /\ rows = TableOf(<<1, 2, 3>>)
    /\ hashSeed = 0
    /\ damage \in {NoDamage, ZeroAvgdl, <<"index", "missing">>}
    /\ phase = "unloaded"
    /\ blocks = <<>> /\ frontcoded = <<>> /\ vocabulary = {}
    /\ index = <<>> /\ doc_len = <<>> /\ title_index = <<>> /\ keyword_index = <<>>
    /\ doc_metadata = <<>> /\ N = 0 /\ avgdl = [num |-> 0, den |-> 1]
    /\ term_freq = <<>> /\ common_typos = <<>> /\ synonyms = <<>>
    /\ call = NoCall
    /\ probe = NoProbe
    /\ inflight = <<>>
    /\ history = <<>>
    /\ sessions = [s \in 1..MaxSessions |-> [open |-> FALSE]]

AppNext ==
    \/ Load
    \/ \E s \in 1..MaxSessions, event \in {"", "Cari", "Hapus Riwayat"},
          query \in {"", "machine learning"},
          domain_filter \in DOMAIN DomainFilters, elapsed \in 1..MaxElapsed :
           main(s, event, query, 10, domain_filter, elapsed)

AppSpec == AppInit /\ [][AppNext]_vars
(***************************************************************************)
(* The properties of search and of its parts                               *)
(***************************************************************************)

\* the doc_id of every entry of the result list of the call
ResultIds == {call.results[i].doc_id : i \in 1..Len(call.results)}

\* the documents of the index
IndexedDocs == UNION {DOMAIN index[t] : t \in DOMAIN index}

\* the number of the terms whose postings hold the document
TermMatches(query_terms, doc_id) ==
    Cardinality({i \in 1..Len(query_terms) :
                    query_terms[i] \in DOMAIN index /\ doc_id \in DOMAIN index[query_terms[i]]})

\* C1: for top_k >= 0, search returns a list of at most top_k entries, each entry's score
\* at least the score of the entry after it
C1_AtMostTopKByScore ==
    (phase = "returned" /\ call.top_k >= 0) =>
        /\ call.outcome = "returned"
        /\ Len(call.results) <= call.top_k
        /\ \A i \in 1..(Len(call.results) - 1) :
               call.results[i].score >= call.results[i + 1].score

\* a call that cut the sorted list to top_k, the documents having come out of the filters
\* with the lower score first
C1_Witness ==
    /\ phase = "returned"
    /\ call.top_k >= 1
    /\ Len(call.final) > call.top_k
    /\ Len(call.results) = call.top_k
    /\ call.scores[call.final[1]] < call.scores[call.final[2]]

\* C2: a query all of whose tokens have at most one character, the empty and the blank
\* query among them, returns the empty list from the first return of search, before the
\* index is looked at
C2_ShortTokensReturnEmpty ==
    (phase = "returned" /\ \A i \in 1..Len(Split(call.query)) : Len(Split(call.query)[i]) <= 1) =>
        /\ call.outcome = "returned"
        /\ call.results = <<>>
        /\ call.terms = <<>>
        /\ call.stage = "preprocess"

\* the query "a b" on an index that holds documents
C2_Witness ==
    /\ phase = "returned"
    /\ call.query = "a b"
    /\ N > 0
    /\ call.results = <<>>

\* C3: the result list is never longer than the limit of the query's class, 25 for a
\* specific, 40 for a moderate, 55 for a generic query, also when the semantic filter
\* after the limit is reverted
C3_AtMostClassLimit ==
    phase = "returned" =>
        Len(call.results) <= (IF call.specificity = "specific" THEN 25
                              ELSE IF call.specificity = "moderate" THEN 40
                              ELSE 55)

\* a specific query with more scored documents than its limit, the semantic filter
\* reverted, and as many results as the limit
C3_Witness ==
    /\ phase = "returned"
    /\ call.specificity = "specific"
    /\ Len(call.scored) > 25
    /\ \A i \in 1..Len(call.limited) : ~check_semantic_relevance(call.terms, call.limited[i])
    /\ call.final = call.limited
    /\ Len(call.results) = 25

\* C4: once a ranker is loaded, search raises nothing, whatever the query: every call
\* ends in a returned list
C4_SearchNeverRaises == phase = "returned" => call.outcome = "returned"

\* the score apply_boosting gives the document for the terms
BoostedScore(query_terms, doc_id) ==
    apply_boosting(query_terms,
                   [d \in {doc_id} |-> compute_bm25_score(query_terms, d)],
                   detect_query_domain(query_terms).boost)[doc_id]

\* C5: when every query term is in the vocabulary and in the postings of one and the same
\* document only, and the boosted score of the document is at least MIN_SCORE_THRESHOLD,
\* a search with top_k >= 1 returns the document
C5_SoleMatchReturned ==
    (phase = "returned" /\ call.top_k >= 1 /\ call.terms # <<>>) =>
        \A d \in IndexedDocs :
            ( /\ \A i \in 1..Len(call.terms) :
                     /\ call.terms[i] \in vocabulary
                     /\ call.terms[i] \in DOMAIN index
                     /\ DOMAIN index[call.terms[i]] = {d}
              /\ BoostedScore(call.terms, d) >= MIN_SCORE_THRESHOLD )
            => d \in ResultIds

\* C6: for a document of non-zero length, the BM25 score of a list of terms with one more
\* term is at least the score of the list
C6_MoreTermsNoLowerScore ==
    (phase = "probed" /\ DocLen(probe.doc_id) # 0) => probe.extended >= probe.score

\* a term added that the document holds and that more than half of the documents hold
C6_Witness ==
    /\ phase = "probed"
    /\ DocLen(probe.doc_id) # 0
    /\ InPostings(probe.term, probe.doc_id)
    /\ 2 * Cardinality(DOMAIN index[probe.term]) > N
    /\ probe.query_terms # <<>>
    /\ probe.score > 0
    /\ probe.extended > probe.score

\* C7: when the fallback recomputes the candidates, every document of the strict
\* candidate set is in the relaxed one
C7_RelaxedHoldsStrict ==
    (phase = "returned" /\ call.fallback) => Range(call.strict) \subseteq Range(call.candidates)

\* a fallback from a strict set that is not empty to a larger one
C7_Witness ==
    /\ phase = "returned"
    /\ call.fallback
    /\ call.strict # <<>>
    /\ Len(call.candidates) > Len(call.strict)

\* C8, as claimed: when every document matches fewer than the fraction MIN_TERM_COVERAGE
\* of the core terms, search returns the empty list
C8_BelowStrictCoverageEmpty ==
    (/\ phase = "returned"
     /\ call.terms # <<>>
     /\ \A d \in IndexedDocs :
            TermMatches(get_core_terms(call.terms), d) * 100
                < MIN_TERM_COVERAGE * Len(get_core_terms(call.terms)))
    => call.results = <<>>

\* C8, amended: when every document matches fewer than max(1, int(0.35 * number of core
\* terms)) of the query terms, search returns the empty list
C8_BelowRelaxedCoverageEmpty ==
    (/\ phase = "returned"
     /\ call.terms # <<>>
     /\ \A d \in IndexedDocs :
            TermMatches(call.terms, d)
                < Max(1, (35 * Len(get_core_terms(call.terms))) \div 100))
    => (call.outcome = "returned" /\ call.results = <<>>)

\* a query of six terms of which documents hold one, none two
C8_Witness ==
    /\ phase = "returned"
    /\ Len(get_core_terms(call.terms)) >= 6
    /\ \E d \in IndexedDocs : TermMatches(call.terms, d) = 1
    /\ \A d \in IndexedDocs : TermMatches(call.terms, d) < 2
    /\ call.results = <<>>

\* what C9 says of the query "detksi penykti jntung": three corrections, each at distance
\* 1, to deteksi, penyakit and jantung
TypoQueryCorrected ==
    /\ call.corrections = << [term |-> "detksi", corrected |-> "deteksi"],
                             [term |-> "penykti", corrected |-> "penyakit"],
                             [term |-> "jntung", corrected |-> "jantung"] >>
    /\ call.confidence = <<1, 1, 1>>
    /\ {"deteksi", "penyakit", "jantung"} \subseteq Range(call.terms)

\* the common-typo table holds the three mappings
TypoTableMaps ==
    /\ {"detksi", "penykti", "jntung"} \subseteq DOMAIN common_typos
    /\ common_typos["detksi"] = "deteksi"
    /\ common_typos["penykti"] = "penyakit"
    /\ common_typos["jntung"] = "jantung"

\* C9, as claimed: with the three mappings in the common-typo table, preprocess_query
\* corrects "detksi penykti jntung" to deteksi, penyakit, jantung, each at distance 1
C9_TypoQueryCorrectedByTable ==
    (phase = "returned" /\ call.query = "detksi penykti jntung" /\ TypoTableMaps)
    => TypoQueryCorrected

\* C9, amended: it does so when, besides, the vocabulary holds deteksi, penyakit and
\* jantung and none of the three misspellings
C9_TypoQueryCorrectedInVocabulary ==
    (/\ phase = "returned"
     /\ call.query = "detksi penykti jntung"
     /\ TypoTableMaps
     /\ {"deteksi", "penyakit", "jantung"} \subseteq vocabulary
     /\ {"detksi", "penykti", "jntung"} \cap vocabulary = {})
    => TypoQueryCorrected

\* the query on an index of a thesis on deteksi penyakit jantung
C9_Witness ==
    /\ phase = "returned"
    /\ call.query = "detksi penykti jntung"
    /\ {"deteksi", "penyakit", "jantung"} \subseteq vocabulary
    /\ TypoQueryCorrected

\* document A of C10: its title holds machine and learning
TitledMachineLearning(doc_id) ==
    InField(title_index, "machine", doc_id) /\ InField(title_index, "learning", doc_id)

\* document B of C10: it holds machine in its abstract only, and learning nowhere
MachineInAbstractOnly(doc_id) ==
    /\ InPostings("machine", doc_id)
    /\ InSeq("machine", Split(Lower(Meta(doc_id, "abstract"))))
    /\ ~InField(title_index, "machine", doc_id)
    /\ ~InField(keyword_index, "machine", doc_id)
    /\ ~InPostings("learning", doc_id)

\* where the document stands in the result list, 0 when it is not in it
Position(doc_id) ==
    IF doc_id \in ResultIds
    THEN CHOOSE i \in 1..Len(call.results) : call.results[i].doc_id = doc_id
    ELSE 0

\* C10: on an index of two documents, A with machine and learning in its title and B with
\* machine in its abstract only, search('machine learning') returns A, and B after it or
\* not at all
C10_TitleMatchRanksFirst ==
    (phase = "returned" /\ call.query = "machine learning" /\ call.top_k >= 1 /\ N = 2) =>
        \A a, b \in DOMAIN doc_len :
            (a # b /\ TitledMachineLearning(a) /\ MachineInAbstractOnly(b)) =>
                /\ a \in ResultIds
                /\ (b \in ResultIds => Position(a) < Position(b))

\* the query on the index of A and B, with A in the result list
C10_Witness ==
    /\ phase = "returned"
    /\ call.query = "machine learning"
    /\ call.top_k >= 1
    /\ N = 2
    /\ \E a, b \in DOMAIN doc_len :
           /\ a # b
           /\ TitledMachineLearning(a)
           /\ MachineInAbstractOnly(b)
           /\ a \in ResultIds

\* C11: detect_query_domain gives the same (domain, boost) for a term list and for the
\* same terms in any other order: the domain with the most matching terms, the first
\* such domain in table order when several have the most, and ('general', 1.0) when
\* no term is in any domain
C11_DomainOrderIndependent ==
    (probe.fn = "detect_query_domain" /\ probe.done) =>
        /\ probe.result = probe.result_reordered
        /\ IF \A p \in 1..Len(DOMAIN_PATTERNS) : DomainMatches(probe.query_terms, p) = 0
           THEN probe.result = [domain |-> "general", boost |-> 1000]
           ELSE \E p \in 1..Len(DOMAIN_PATTERNS) :
                    /\ probe.result = [domain |-> DOMAIN_PATTERNS[p].name,
                                       boost |-> DOMAIN_PATTERNS[p].boost]
                    /\ \A r \in 1..Len(DOMAIN_PATTERNS) :
                           DomainMatches(probe.query_terms, r) <= DomainMatches(probe.query_terms, p)
                    /\ \A r \in 1..(p - 1) :
                           DomainMatches(probe.query_terms, r) < DomainMatches(probe.query_terms, p)

\* C11 witness: one term of ml_ai before one of security, and the two swapped: a tie,
\* and both calls return security, the earlier domain of the table
C11_Witness ==
    /\ probe.fn = "detect_query_domain" /\ probe.done
    /\ probe.query_terms = <<"machine", "cipher">>
    /\ probe.reordered = <<"cipher", "machine">>
    /\ probe.result.domain = "security"
    /\ probe.result_reordered.domain = "security"

\* the Levenshtein distance by its definition: the least number of insertions, deletions
\* and substitutions of one character that turn a into b
RECURSIVE Levenshtein(_, _)
Levenshtein(a, b) ==
    IF a = "" THEN Len(b)
    ELSE IF b = "" THEN Len(a)
    ELSE LET ta == SubSeq(a, 2, Len(a))
             tb == SubSeq(b, 2, Len(b))
         IN  Min(Levenshtein(ta, b) + 1,
                 Min(Levenshtein(a, tb) + 1,
                     Levenshtein(ta, tb) + (IF CharAt(a, 1) = CharAt(b, 1) THEN 0 ELSE 1)))

\* C12: edit_distance(s1, s2) is the Levenshtein distance of the two strings; it is the
\* same in both orders, it is 0 for equal strings and only for them, and it is len(s2)
\* when s1 is empty
C12_EditDistanceIsLevenshtein ==
    (probe.fn = "edit_distance" /\ probe.done) =>
        /\ probe.result = Levenshtein(probe.s1, probe.s2)
        /\ probe.result = probe.result_swapped
        /\ (probe.s1 = probe.s2) <=> (probe.result = 0)
        /\ probe.s1 = "" => probe.result = Len(probe.s2)

\* C12 witness: the shorter string first, so that the call swaps its arguments; one
\* substitution and one insertion apart
C12_Witness ==
    /\ probe.fn = "edit_distance" /\ probe.done
    /\ probe.s1 = "ab" /\ probe.s2 = "bba"
    /\ probe.result = 2
    /\ probe.result_swapped = 2

\* C13: decoding the front-coded string of a block gives back the terms of the block,
\* in any order: the bare term of a one-term block, the prefix alone for an empty
\* suffix, the prefix followed by each suffix otherwise
C13_FrontcodingRoundTrip ==
    (probe.fn = "decode_frontcoded" /\ probe.done) =>
        Range(probe.decoded) = probe.terms

\* C13 witness: a block of three terms, one of them the prefix itself, coded with an
\* empty first suffix
C13_Witness ==
    /\ probe.fn = "decode_frontcoded" /\ probe.done
    /\ probe.terms = {"kom", "komp", "kompu"}
    /\ probe.frontcoded_str = "kom*|p|pu"
    /\ Range(probe.decoded) = probe.terms

\* C14: no search call ends in a division by zero, whatever index file was loaded, one
\* whose avg_doc_len is 0 included
C14_NoDivisionByZero ==
    phase = "returned" => call.outcome # "ZeroDivisionError"

\* C15: no ranker is produced from a data directory in which the blocks file, the
\* front-coded file or the index file is missing or is not JSON, or in which the index
\* file lacks one of index, doc_len, title_index, keyword_index, doc_metadata, num_docs,
\* avg_doc_len
C15_DamagedFilesFailConstruction ==
    (damage \in FileFaults \cup KeyFaults /\ phase # "unloaded") => phase = "failed"

\* C16: search writes no field of the ranker, and a call that runs interleaved with
\* other calls on the same ranker ends with what the same call gives when it runs alone
C16_SearchLeavesRanker ==
    /\ [][phase = "ready" => ranker' = ranker]_vars
    /\ [](\A t \in DOMAIN inflight :
              inflight[t].pc = "done" =>
                  inflight[t].c = search(inflight[t].query, inflight[t].top_k))

\* C16 witness: a call with corrections and results has returned while another call that
\* started on the same ranker is still between two of its parts
C16_Witness ==
    /\ phase = "ready"
    /\ \E t, u \in DOMAIN inflight :
           /\ inflight[t].pc = "done"
           /\ inflight[t].query = "learnin machine"
           /\ inflight[t].c.corrections # <<>>
           /\ inflight[t].c.results # <<>>
           /\ inflight[u].pc = "score"
           /\ inflight[u].query = "penyakit jantung"

\* the common-typo table maps the word to a term of the vocabulary
TableResolves(word) ==
    word \in DOMAIN common_typos /\ common_typos[word] \in vocabulary

\* C17: a word of the vocabulary comes back unchanged with distance 0, whatever the typo
\* table holds for it; a word outside the vocabulary that the typo table maps to a term
\* of the vocabulary comes back as that term with distance 1, whatever completes it or
\* is near it; a table entry whose target is not in the vocabulary is never returned
C17_StagesInOrder ==
    probe.fn = "correct_spelling" =>
        /\ probe.word \in vocabulary =>
               probe.result = [term |-> probe.word, was_correct |-> TRUE, distance |-> 0]
        /\ (probe.word \notin vocabulary /\ TableResolves(probe.word)) =>
               probe.result = [term |-> common_typos[probe.word], was_correct |-> FALSE,
                               distance |-> 1]
        /\ (probe.word \notin vocabulary /\ ~TableResolves(probe.word)) =>
               \/ probe.result.term \in vocabulary
               \/ probe.result = [term |-> probe.word, was_correct |-> FALSE, distance |-> 999]

\* C17 witness: machin is corrected to machine by the typo table, although machines
\* completes it and is in more documents than machine
C17_Witness ==
    /\ probe.fn = "correct_spelling"
    /\ probe.word = "machin"
    /\ probe.result = [term |-> "machine", was_correct |-> FALSE, distance |-> 1]
    /\ "machines" \in vocabulary
    /\ Cardinality(DOMAIN index["machines"]) > Cardinality(DOMAIN index["machine"])

\* the terms of the word's three-letter block that start with the word and are at most
\* 5 characters longer
Completions(word) ==
    IF Len(word) >= 3 /\ SubSeq(word, 1, 3) \in DOMAIN blocks
    THEN {t \in Range(blocks[SubSeq(word, 1, 3)]) :
             StartsWith(t, word) /\ Len(t) <= Len(word) + 5}
    ELSE {}

\* the number of documents the term is in
DocFreq(t) == IF t \in DOMAIN index THEN Cardinality(DOMAIN index[t]) ELSE 0

\* the place of the term in its block
BlockPlace(t) == CHOOSE i \in 1..Len(blocks[BlockKey(t)]) : blocks[BlockKey(t)][i] = t

\* C18: a word of three letters or more that is not in the vocabulary and that the typo
\* table does not resolve, and that terms of its block complete by at most 5
\* characters, is corrected to the completion in the most documents, the first of them
\* in the block when several are, with the number of added characters as distance
C18_PrefixCompletion ==
    (/\ probe.fn = "correct_spelling"
     /\ probe.word \notin vocabulary
     /\ ~TableResolves(probe.word)
     /\ Completions(probe.word) # {}) =>
        /\ probe.result.term \in Completions(probe.word)
        /\ ~probe.result.was_correct
        /\ probe.result.distance = Len(probe.result.term) - Len(probe.word)
        /\ \A t \in Completions(probe.word) :
               /\ DocFreq(t) <= DocFreq(probe.result.term)
               /\ DocFreq(t) = DocFreq(probe.result.term) =>
                      BlockPlace(probe.result.term) <= BlockPlace(t)

\* C18 witness: komp is completed to komputasi, which is in as many documents as
\* komputer and comes before it in the block; kompresi is in fewer, and
\* komputerisasinya, in more, is more than 5 characters longer
C18_Witness ==
    /\ probe.fn = "correct_spelling"
    /\ probe.word = "komp"
    /\ probe.result = [term |-> "komputasi", was_correct |-> FALSE, distance |-> 5]
    /\ DocFreq("komputer") = DocFreq("komputasi")
    /\ DocFreq("kompresi") < DocFreq("komputasi")
    /\ DocFreq("komputerisasinya") > DocFreq("komputasi")

\* the keys of the blocks the fuzzy search reads: the three-letter keys equal to the
\* word's first three characters but for at most one, a letter a-z, in one place
SearchedKeys(word) ==
    IF Len(word) < 3 THEN {}
    ELSE {k \in DOMAIN blocks :
             /\ Len(k) = 3
             /\ Cardinality({i \in 1..3 : CharAt(k, i) # CharAt(word, i)}) <= 1
             /\ \A i \in 1..3 : CharAt(k, i) # CharAt(word, i) =>
                    \E c \in 1..Len(Letters) : CharAt(Letters, c) = CharAt(k, i)}

\* the terms of the searched blocks within min(3, len(word) // 2) edits of the word
NearTerms(word) ==
    {t \in UNION {Range(blocks[k]) : k \in SearchedKeys(word)} :
        edit_distance(word, t) <= Min(3, Len(word) \div 2)}

\* C19: for a word that is not in the vocabulary, that the typo table does not resolve
\* and that no term completes, the fuzzy search returns a term of the searched blocks
\* within min(3, len(word) // 2) edits, at the least distance and, at that distance, in
\* the most documents; it returns the word itself with distance 999 exactly when the
\* searched blocks hold no such term
C19_BoundedFuzzySearch ==
    (/\ probe.fn = "correct_spelling"
     /\ probe.word \notin vocabulary
     /\ ~TableResolves(probe.word)
     /\ Completions(probe.word) = {}) =>
        IF NearTerms(probe.word) = {}
        THEN probe.result = [term |-> probe.word, was_correct |-> FALSE, distance |-> 999]
        ELSE /\ probe.result.term \in NearTerms(probe.word)
             /\ ~probe.result.was_correct
             /\ probe.result.distance = edit_distance(probe.word, probe.result.term)
             /\ \A t \in NearTerms(probe.word) :
                    /\ probe.result.distance <= edit_distance(probe.word, t)
                    /\ edit_distance(probe.word, t) = probe.result.distance =>
                           DocFreq(t) <= DocFreq(probe.result.term)

\* C19 witness: dara has no block of its own; data and dana, in two blocks whose keys
\* differ from dar by one letter, are both one edit away, and data, in more documents,
\* is returned
C19_Witness ==
    /\ probe.fn = "correct_spelling"
    /\ probe.word = "dara"
    /\ "dar" \notin DOMAIN blocks
    /\ {"data", "dana"} \subseteq NearTerms("dara")
    /\ edit_distance("dara", "dana") = 1
    /\ DocFreq("dana") < DocFreq("data")
    /\ probe.result = [term |-> "data", was_correct |-> FALSE, distance |-> 1]

\* the terms correct_spelling gives for the tokens of the query, in their order
CorrectedTokens(tokens) == [i \in 1..Len(tokens) |-> correct_spelling(tokens[i]).term]

\* the synonyms the table holds for a term
SynonymsOf(t) == IF t \in DOMAIN synonyms THEN synonyms[t] ELSE {}

\* C20: when every token of the query is corrected with a distance under 3,
\* preprocess_query returns the corrected terms and, for each, 2 of its synonyms (all of
\* them when it has fewer), each term once; when a token is corrected with a distance
\* of 3 or more, 999 included, it returns the corrected terms as they are
C20_ExpansionGatedByDistance ==
    probe.fn = "preprocess_query" =>
        LET tokens == probe.result.tokens
            corrected == CorrectedTokens(tokens)
            terms == probe.result.terms
            added == Range(terms) \ Range(corrected)
        IN  IF \A i \in 1..Len(tokens) : correct_spelling(tokens[i]).distance < 3
            THEN /\ Range(corrected) \subseteq Range(terms)
                 /\ Cardinality(Range(terms)) = Len(terms)
                 /\ added \subseteq UNION {SynonymsOf(t) : t \in Range(corrected)}
                 /\ Cardinality(added) <=
                        2 * Cardinality({t \in Range(corrected) : SynonymsOf(t) # {}})
                 /\ \A t \in Range(corrected) :
                        Cardinality(Range(terms) \cap SynonymsOf(t)) >=
                            Min(2, Cardinality(SynonymsOf(t)))
            ELSE terms = corrected

\* C20 witness: rekomndasi is not corrected (999), so sistem, which has synonyms and is
\* there twice, is returned twice and without them
C20_Witness ==
    /\ probe.fn = "preprocess_query"
    /\ probe.query = "sistem sistem rekomndasi"
    /\ "sistem" \in vocabulary
    /\ SynonymsOf("sistem") # {}
    /\ 999 \in Range(probe.result.confidence)
    /\ probe.result.terms = <<"sistem", "sistem", "rekomndasi">>

(***************************************************************************)
(* The properties of the analysis, the candidates, the filters and the     *)
(* application                                                             *)
(***************************************************************************)

\* the positions of the core terms of a list: the terms that are no stopword, or every
\* position when there is none
CorePositions(query_terms) ==
    LET kept == {i \in 1..Len(query_terms) : query_terms[i] \notin GENERIC_TERMS}
    IN  IF kept = {} THEN 1..Len(query_terms) ELSE kept

\* some core term is in the term list of some domain
CoreInDomain(query_terms) ==
    \E i \in CorePositions(query_terms) : \E p \in 1..Len(DOMAIN_PATTERNS) :
        query_terms[i] \in Range(DOMAIN_PATTERNS[p].terms)

\* the condition of the class "specific"
IsSpecific(query_terms) ==
    \/ Cardinality(CorePositions(query_terms)) >= 3
    \/ (Cardinality(CorePositions(query_terms)) >= 2 /\ CoreInDomain(query_terms))

\* C21: analyze_query_specificity returns "specific" iff the core-term count is >= 3 or
\* it is >= 2 and some core term is in a domain's term list, "moderate" iff the count is
\* >= 2 and that condition fails, and "generic" otherwise; the core terms are the terms
\* minus the stopwords, or the full list when nothing is left
C21_SpecificityByCoreTerms ==
    (probe.fn = "detect_query_domain" /\ probe.done) =>
        /\ probe.specificity \in {"specific", "moderate", "generic"}
        /\ probe.specificity = "specific" <=> IsSpecific(probe.query_terms)
        /\ probe.specificity = "moderate" <=>
               (Cardinality(CorePositions(probe.query_terms)) >= 2
                    /\ ~IsSpecific(probe.query_terms))

\* a list of two stopwords, whose core terms are the full list: moderate, not generic
C21_Witness ==
    /\ probe.fn = "detect_query_domain" /\ probe.done
    /\ Len(probe.query_terms) = 2
    /\ \A i \in 1..2 : probe.query_terms[i] \in GENERIC_TERMS
    /\ probe.specificity = "moderate"

\* the documents with at least max(1, floor(core-term count * fraction)) of the terms in
\* their postings, fraction in hundredths
Covering(query_terms, fraction) ==
    {d \in IndexedDocs :
        TermMatches(query_terms, d) >=
            Max(1, (Cardinality(CorePositions(query_terms)) * fraction) \div 100)}

\* the candidates are the covering documents under MIN_TERM_COVERAGE, recomputed with 0.35
\* if and only if they are fewer than 5
CandidatesAsClaimed ==
    /\ Range(call.strict) = Covering(call.terms, 65)
    /\ call.fallback <=> Cardinality(Covering(call.terms, 65)) < 5
    /\ Range(call.candidates) = IF Cardinality(Covering(call.terms, 65)) < 5
                                THEN Covering(call.terms, 35)
                                ELSE Covering(call.terms, 65)
    /\ \A i, j \in 1..Len(call.candidates) :
           call.candidates[i] = call.candidates[j] => i = j

\* C22, as claimed: the candidate set is the documents covering the fraction
\* MIN_TERM_COVERAGE of the core-term count, recomputed with 0.35 iff fewer than 5, and
\* search returns [] exactly when the resulting set is empty
C22_EmptyExactlyWhenNoCandidate ==
    (phase = "returned" /\ call.outcome = "returned" /\ call.terms # <<>>) =>
        /\ CandidatesAsClaimed
        /\ call.results = <<>> <=> call.candidates = <<>>

\* C22, amended: the same candidate set; search returns [] whenever the set is empty, and
\* it takes its return `if not candidate_docs` exactly when the set is empty
C22_NoCandidateReturnsEmpty ==
    (phase = "returned" /\ call.outcome = "returned" /\ call.terms # <<>>) =>
        /\ CandidatesAsClaimed
        /\ call.candidates = <<>> => call.results = <<>>
        /\ call.stage = "collect" <=> call.candidates = <<>>

\* a call whose strict candidates are 5 or more, kept without the fallback, the coverage
\* filter having dropped a document that holds one of the terms
C22_Witness ==
    /\ phase = "returned"
    /\ call.terms # <<>>
    /\ ~call.fallback
    /\ Len(call.candidates) >= 5
    /\ \E d \in IndexedDocs : TermMatches(call.terms, d) >= 1 /\ d \notin Range(call.candidates)
    /\ call.results # <<>>

\* C23: a document whose stored length is 0, or that has no entry in the length table,
\* gets the BM25 score 0 and is in no result list, whatever the query, also when the
\* semantic filters fall back to their unfiltered sets
C23_NoLengthNoResult ==
    (phase = "returned" /\ call.outcome = "returned") =>
        /\ \A d \in IndexedDocs :
               (d \notin DOMAIN doc_len \/ doc_len[d] = 0) =>
                   compute_bm25_score(call.terms, d) = 0
        /\ \A i \in 1..Len(call.results) :
               /\ call.results[i].doc_id \in DOMAIN doc_len
               /\ doc_len[call.results[i].doc_id] # 0

\* an index whose first document has no length; the document holds a term of the query,
\* is a candidate, stays in the pool as fewer than 3 candidates are relevant and the
\* semantic filter before the scores falls back, and is not among the results, which hold
\* another document
C23_Witness ==
    /\ phase = "returned"
    /\ damage \in LengthFaults
    /\ \E d \in Range(call.candidates) :
           /\ DocLen(d) = 0
           /\ d \in Range(call.pool)
           /\ Cardinality({e \in Range(call.candidates) :
                               check_semantic_relevance(call.terms, e)}) < 3
           /\ d \notin ResultIds
    /\ call.results # <<>>

\* at least 70% of the core terms occur in title + keywords + abstract of the document,
\* each as a substring, itself or one of its synonyms
RelevantTo(query_terms, d) ==
    LET text == Lower(Meta(d, "title") \o " " \o Meta(d, "keywords") \o " " \o Meta(d, "abstract"))
        found == {i \in CorePositions(query_terms) :
                     \/ Contains(text, query_terms[i])
                     \/ /\ query_terms[i] \in DOMAIN synonyms
                        /\ \E syn \in synonyms[query_terms[i]] : Contains(text, syn)}
    IN  10 * Cardinality(found) >= 7 * Cardinality(CorePositions(query_terms))

\* the documents of the list that are relevant to the terms of the call
RelevantOf(docs) == {d \in Range(docs) : RelevantTo(call.terms, d)}

\* C24: the documents that get scored are the semantically relevant candidates when at
\* least 3 candidates are relevant, and the whole candidate set otherwise
C24_PrefilterRelaxed ==
    (phase = "returned" /\ call.outcome = "returned" /\ call.candidates # <<>>) =>
        Range(call.pool) = IF Cardinality(RelevantOf(call.candidates)) >= 3
                           THEN RelevantOf(call.candidates)
                           ELSE Range(call.candidates)

\* a call with three relevant candidates and one that is not, which is not scored
C24_Witness ==
    /\ phase = "returned"
    /\ Cardinality(RelevantOf(call.candidates)) >= 3
    /\ \E d \in Range(call.candidates) : ~RelevantTo(call.terms, d) /\ d \notin Range(call.pool)
    /\ Len(call.pool) < Len(call.candidates)
    /\ call.results # <<>>

ClassPercent ==
    IF call.specificity = "specific" THEN 25 ELSE IF call.specificity = "moderate" THEN 35 ELSE 45

\* the cap of the class of the call
ClassCap ==
    IF call.specificity = "specific" THEN MAX_RESULTS_SPECIFIC
    ELSE IF call.specificity = "moderate" THEN MAX_RESULTS_MODERATE
    ELSE MAX_RESULTS_GENERIC

\* the values v with at most idx scores above v and more than idx scores at v or above:
\* the score at index idx, from 0, of the descending list of the scores
ScoresAtIndex(idx) ==
    {call.scores[d] : d \in {e \in Range(call.scored) :
        /\ Cardinality({f \in Range(call.scored) : call.scores[f] > call.scores[e]}) <= idx
        /\ Cardinality({f \in Range(call.scored) : call.scores[f] >= call.scores[e]}) > idx}}

\* max(adaptive_threshold, MIN_SCORE_THRESHOLD), as the set of the values it can be
ThresholdsAsClaimed ==
    IF Len(call.scored) > 20
    THEN {Max(v, MIN_SCORE_THRESHOLD) :
             v \in ScoresAtIndex(Max(8, (Len(call.scored) * ClassPercent) \div 100))}
    ELSE {MIN_SCORE_THRESHOLD}

\* the scored documents at or above the threshold
AtOrAbove(threshold) == {d \in Range(call.scored) : call.scores[d] >= threshold}

\* the limiter kept the documents passing, cut to the cap of the class by score
KeptOf(passing) ==
    /\ Range(call.limited) \subseteq passing
    /\ Cardinality(passing) <= ClassCap => Range(call.limited) = passing
    /\ Cardinality(passing) > ClassCap =>
           /\ Cardinality(Range(call.limited)) = ClassCap
           /\ \A d \in Range(call.limited), e \in passing \ Range(call.limited) :
                  call.scores[d] >= call.scores[e]

\* C26: filter_results keeps exactly the documents with score >= max(adaptive_threshold,
\* MIN_SCORE_THRESHOLD), the adaptive threshold being the score at index
\* max(8, floor(count * percentile)) of the descending scores when count > 20, cut to the
\* cap of the class by score; every result of search has score >= MIN_SCORE_THRESHOLD
C26_LimiterThreshold ==
    (phase = "returned" /\ call.outcome = "returned" /\ call.stage = "done") =>
        /\ Cardinality(ThresholdsAsClaimed) = 1
        /\ \A threshold \in ThresholdsAsClaimed : KeptOf(AtOrAbove(threshold))
        /\ \A i \in 1..Len(call.results) : call.results[i].score >= MIN_SCORE_THRESHOLD

\* more than 20 scored documents, an adaptive threshold above MIN_SCORE_THRESHOLD that
\* drops a document whose score is above MIN_SCORE_THRESHOLD, more documents at the
\* threshold than the cap, and the cap of them kept
C26_Witness ==
    /\ phase = "returned"
    /\ call.stage = "done"
    /\ Len(call.scored) > 20
    /\ \E threshold \in ThresholdsAsClaimed :
           /\ \E d \in Range(call.scored) :
                  call.scores[d] >= MIN_SCORE_THRESHOLD /\ call.scores[d] < threshold
           /\ Cardinality(AtOrAbove(threshold)) > ClassCap
    /\ Len(call.limited) = ClassCap

\* the step is a run of the page by session s in which ranker.search is invoked
SearchInvoked(s) ==
    /\ sessions'[s].open
    /\ sessions'[s].searches = (IF sessions[s].open THEN sessions[s].searches ELSE 0) + 1

\* C27: every invocation of ranker.search from the search page is followed by exactly one
\* record appended to the search history, holding the query of the invocation, its result
\* count and its latency, the earlier records left in place and unmodified
C27_EverySearchLogged ==
    [][\A s \in 1..MaxSessions :
           SearchInvoked(s) =>
               \E elapsed \in 1..MaxElapsed :
                   history' = Append(history,
                                  [query |-> sessions'[s].query,
                                   num_results |-> Len(search(sessions'[s].query, 10).results),
                                   search_time |-> elapsed])]_vars

\* a token of two characters that is not in the vocabulary and that the typo table does
\* not map to a term of the vocabulary
ShortUnknown(word) ==
    /\ Len(word) = 2
    /\ word \notin vocabulary
    /\ ~(word \in DOMAIN common_typos /\ common_typos[word] \in vocabulary)

\* C28: for a token of two characters that stages 1 and 2 do not answer, correct_spelling
\* searches no block and returns the token unchanged with distance 999, whatever the
\* dictionary holds; a query with such a token is not expanded with synonyms
C28_ShortTokensUncorrected ==
    /\ (probe.fn = "correct_spelling" /\ ShortUnknown(probe.word)) =>
           /\ probe.result = [term |-> probe.word, was_correct |-> FALSE, distance |-> 999]
           /\ SearchPrefixes(probe.word) = {}
    /\ (probe.fn = "preprocess_query"
            /\ \E i \in 1..Len(probe.result.tokens) : ShortUnknown(probe.result.tokens[i])) =>
           /\ probe.result.terms = CorrectedTokens(probe.result.tokens)
           /\ 999 \in Range(probe.result.confidence)

\* the query "ui sistem" on a dictionary that holds uji, one edit from ui, and sistem,
\* which has synonyms: the terms returned are ui and sistem
C28_Witness ==
    /\ probe.fn = "preprocess_query"
    /\ probe.query = "ui sistem"
    /\ "uji" \in vocabulary
    /\ edit_distance("ui", "uji") = 1
    /\ "sistem" \in vocabulary
    /\ SynonymsOf("sistem") # {}
    /\ probe.result.terms = <<"ui", "sistem">>

\* the class of a term list
ClassOf(query_terms) ==
    IF IsSpecific(query_terms) THEN "specific"
    ELSE IF Cardinality(CorePositions(query_terms)) >= 2 THEN "moderate"
    ELSE "generic"

\* C29: search computes the specificity, the coverage threshold and the semantic-relevance
\* fraction over the expanded term list, the corrected terms and the synonyms added to
\* them: a query of one token whose term got two synonyms has three core terms, is
\* "specific" and returns at most 25 documents
C29_ExpandedTermsEverywhere ==
    (phase = "returned" /\ call.outcome = "returned" /\ call.terms # <<>>) =>
        /\ call.specificity = ClassOf(call.terms)
        /\ Range(call.strict) = Covering(call.terms, 65)
        /\ call.candidates # <<>> =>
               Range(call.pool) \in {Range(call.candidates), RelevantOf(call.candidates)}
        /\ (/\ Len(call.tokens) = 1
            /\ Len(call.terms) = 3
            /\ Cardinality(CorePositions(call.terms)) = 3) =>
               /\ call.specificity = "specific"
               /\ Len(call.limited) <= 25
               /\ Len(call.results) <= 25

\* the query "jantung", generic by its one token, expanded with heart and cardiac: of more
\* than 25 scored documents 25 are returned
C29_Witness ==
    /\ phase = "returned"
    /\ call.outcome = "returned"
    /\ call.tokens = <<"jantung">>
    /\ call.terms = <<"jantung", "heart", "cardiac">>
    /\ ClassOf(call.tokens) = "generic"
    /\ call.specificity = "specific"
    /\ Len(call.scored) > 25
    /\ Len(call.results) = 25

\* the multiplier apply_boosting gave a scored document of the call
MultOf(d) == BoostMult(call.terms, d, detect_query_domain(call.terms).boost)

\* C30: the multiplier of every scored document is at least 1, so the boosted score is
\* never below the BM25 score, and apply_boosting scores exactly the documents it is given
C30_BoostNeverLowers ==
    (phase = "returned" /\ call.outcome = "returned" /\ call.stage \in {"limit", "done"}) =>
        /\ detect_query_domain(call.terms).boost >= 1000
        /\ DOMAIN call.scores = Range(call.scored)
        /\ \A d \in Range(call.scored) :
               /\ MultOf(d) >= 1000
               /\ compute_bm25_score(call.terms, d) > 0
               /\ call.scores[d] >= compute_bm25_score(call.terms, d)

\* a query of no domain and a document that holds one of its two terms, in its abstract
\* only: no bonus and no factor applies, the multiplier is 1 and the score stays as it is
C30_Witness ==
    /\ phase = "returned"
    /\ call.outcome = "returned"
    /\ call.stage = "done"
    /\ call.domain = "general"
    /\ \E d \in Range(call.scored) :
           /\ MultOf(d) = 1000
           /\ call.scores[d] = compute_bm25_score(call.terms, d)
====
